---- MODULE Spec2Model ----
(***************************************************************************)
(* Model of fsleyes/gl/scene3dcanvas.py: the render-object registry of a   *)
(* Scene3DCanvas (the __glObjects dictionary), the deferred construction   *)
(* tasks it queues with async.idle, the listeners it adds and removes, and *)
(* its teardown.                                                           *)
(*                                                                         *)
(* The overlay list, the display context (Display records, ordered-overlay *)
(* query), the property listeners, the idle loop, the rendering context    *)
(* and the GLObject factory are collaborators of the canvas; they are      *)
(* modelled by the part of their interface the canvas uses.                *)
(***************************************************************************)
EXTENDS Integers, Sequences, FiniteSets, TLC

\* ------------------------------------------------------------------------
\* Bounds of the model
\* ------------------------------------------------------------------------

\* Most construction tasks waiting in the idle queue.
MaxQueue == 2

\* Most adapters alive (constructed and not destroyed) at one time.
MaxAdapters == 2

\* The longest list of paths given to loadOverlays.
MaxPaths == 2

\* Most properties of the orientation labels that hold another value than
\* their initial one at one time.
MaxChanged == 1

\* ------------------------------------------------------------------------
\* Overlays and Display records
\* ------------------------------------------------------------------------

\* One overlay of each class: V1 an fslimage.Image, S1 an
\* fslmesh.TriangleMesh, O1 an overlay of another class.
Overlays == {"V1", "S1", "O1"}

overlayClass(o) ==
    CASE o \in {"V1", "V2"} -> "Image"
      [] o \in {"S1", "S2"} -> "TriangleMesh"
      [] OTHER    -> "Other"

\* The values Display.overlayType takes for each overlay; the first is the
\* one a fresh Display record starts with.
overlayTypesOf(o) ==
    CASE overlayClass(o) = "Image"        -> <<"volume", "label">>
      [] overlayClass(o) = "TriangleMesh" -> <<"mesh", "giftimesh">>
      [] OTHER                            -> <<"tensor">>

defaultOverlayType(o) == overlayTypesOf(o)[1]

\* isinstance(overlay, (fslmesh.TriangleMesh, fslimage.Image))
isRenderableClass(o) == overlayClass(o) \in {"TriangleMesh", "Image"}

Renderable == {o \in Overlays : isRenderableClass(o)}

\* display.overlayType in ('volume', 'mesh', 'giftimesh')
isRenderableType(t) == t \in {"volume", "mesh", "giftimesh"}

Range(s) == {s[i] : i \in 1..Len(s)}

\* The order in which the overlays are inserted into the overlay list.
InsertionOrder == <<"V1", "S1", "O1">>

\* The values of the overlay list: the overlays present, in insertion order.
\* The renderable overlays come and go; O1 stays in the list.
OverlayLists ==
    {SelectSeq(InsertionOrder, LAMBDA o : o \in S \/ ~isRenderableClass(o)) :
        S \in SUBSET Overlays}

\* ------------------------------------------------------------------------
\* Options, canvas size and scene bounds
\* ------------------------------------------------------------------------

\* Mutant: the constraints with the lower limit of the other views.
zoomConstraints_other == [minval |-> 10, default |-> 75, maxval |-> 5000]

\* The constraints Scene3DOpts.__init__ sets on zoom.
zoomConstraints == [minval |-> 1, default |-> 75, maxval |-> 5000]

\* Coordinates of the bounds are whole numbers of world units.  A bounding
\* box is <<lo, hi>>, lo and hi being <<x, y, z>>.
Box(x, y, z) == <<<<x[1], y[1], z[1]>>, <<x[2], y[2], z[2]>>>>

\* The canvas size and the scene bounds when the canvas is constructed.
InitSize == <<2, 1>>
InitBounds == Box(<<0, 100>>, <<0, 100>>, <<0, 100>>)

\* ------------------------------------------------------------------------
\* State
\* ------------------------------------------------------------------------

VARIABLES
    overlayList,    \* the OverlayList: a sequence of distinct overlays
    overlayType,    \* Display.overlayType of each overlay
    occlusion,      \* opts.occlusion
    hasRefs,        \* FALSE once destroy() set __overlayList (and __opts,
                    \* __displayCtx, __glObjects) to None
    glObjects,      \* __glObjects in insertion order: <<[ovl, obj], ...>>,
                    \* obj = 0 for the False sentinel, else an adapter id
    idleQueue,      \* create() closures queued by async.idle: [ovl, stale]
    listeners,      \* listeners registered under the canvas's name:
                    \* <<target, property>>
    adapters,       \* the adapters alive, by id: the overlay the factory
                    \* built the adapter for, or "free" for an id not in use
    raised,         \* the exception the last call ended with, or "none"
    lastCall,       \* the last call made: [op, ovl]
    retOverlays,    \* first list returned by the last getGLObjects call
    retGlobjs,      \* second list returned by the last getGLObjects call
    oldTasks,       \* how many tasks at the head of the idle queue were
                    \* queued before the last call of destroy()
    opts,           \* the other options of self.opts the canvas reads:
                    \* [showCursor, showLegend, zoom, rotation, offset,
                    \* lightPos]; rotation in quarter turns about the z
                    \* axis, offset <<x, y>> in viewport halves
    resetLightPos,  \* self.__resetLightPos
    size,           \* what self.GetSize() returns: <<width, height>>
    bounds,         \* displayCtx.bounds: <<lo, hi>>, each <<x, y, z>>
    viewMat,        \* self.__viewMat: what the view matrix was computed
                    \* from, or the identity of __init__
    projMat,        \* self.__projMat: what the projection matrix was
                    \* computed from, or the identity of __init__
    viewParts,      \* self.__viewOffset, __viewScale, __viewRotate and
                    \* __viewCamera: <<[offset, scale, rotate, camera]>>,
                    \* or <<>> while the four attributes do not exist
    refreshed,      \* whether the last call requested a redraw (Refresh)
    glLog,          \* the rendering-context and GL steps of the last call
    retViewport,    \* what the last __setViewport call returned, "-" if
                    \* the last call made none
    assigned,       \* the value the last call assigned to an option or
                    \* the pixel it was given, "-" if it had neither
    retWorld,       \* the point the last canvasToWorld call returned,
                    \* <<>> if the last call was another one
    loads,          \* the calls of loadOverlays, by call: [started, paths,
                    \* overlays, errors, loadFunc, onLoad, ret]
    loadIdle,       \* the loadPath and realOnLoad tasks queued by
                    \* async.idle: [fn, id, path]
    labels          \* an OrthoLabels object on one canvas, with the
                    \* properties it listens to: [props, listeners,
                    \* annots, queue, ran, op, painted]; ran and
                    \* painted are the listeners the last call ran and
                    \* the annotations it drew

\* The state of the canvas and of what it works on.
canvasVars ==
    <<overlayList, overlayType, occlusion, hasRefs, glObjects, idleQueue,
      listeners, adapters, raised, lastCall, retOverlays, retGlobjs,
      oldTasks, opts, resetLightPos, size, bounds, viewMat, projMat,
      viewParts, refreshed, glLog, retViewport, assigned, retWorld>>

vars == <<canvasVars, loads, loadIdle, labels>>

\* The False sentinel stored for an entry under construction.
Pending == 0

\* ------------------------------------------------------------------------
\* The __glObjects dictionary
\* ------------------------------------------------------------------------

\* overlay in self.__glObjects
Has(g, o) == \E i \in 1..Len(g) : g[i].ovl = o

\* self.__glObjects[overlay], for a key that is present
Get(g, o) == g[CHOOSE i \in 1..Len(g) : g[i].ovl = o].obj

\* self.__glObjects.pop(overlay, None): the dictionary without the key
Pop(g, o) == SelectSeq(g, LAMBDA e : e.ovl # o)

\* self.__glObjects[overlay] = v: a new key goes last, an old key keeps
\* its place
Put(g, o, v) ==
    IF Has(g, o)
    THEN [i \in 1..Len(g) |->
            IF g[i].ovl = o THEN [ovl |-> o, obj |-> v] ELSE g[i]]
    ELSE Append(g, [ovl |-> o, obj |-> v])

\* list(self.__glObjects.keys()): the keys in one of the orders the
\* dictionary may give them in.  The order of the keys of a dict is not
\* specified on every interpreter the module runs on (it is the insertion
\* order on some, and depends on the hashes of the overlays on others), so
\* every order is possible.
Keys(g) ==
    {k \in [1..Len(g) -> {g[i].ovl : i \in 1..Len(g)}] :
        \A i, j \in 1..Len(g) : i # j => k[i] # k[j]}

\* ------------------------------------------------------------------------
\* The canvas and its collaborators as one record, so that a handler is a
\* function from record to record.  A handler that raised leaves exc set
\* and the statements after the raise are not executed.
\* ------------------------------------------------------------------------

\* A transform handed to an adapter is the view matrix with a number of
\* depth-offset steps concatenated in front of it; a log entry of a step
\* that takes no transform holds NoXform, as does the record outside _draw
\* (xform is a local variable of _draw).
NoXform == <<>>

World ==
    [overlayList |-> overlayList, overlayType |-> overlayType,
     occlusion   |-> occlusion,   hasRefs     |-> hasRefs,
     glObjects   |-> glObjects,   idleQueue   |-> idleQueue,
     listeners   |-> listeners,   adapters    |-> adapters,
     oldTasks    |-> oldTasks,    exc         |-> "none",
     opts        |-> opts,
     resetLightPos |-> resetLightPos,
     size        |-> size,        bounds      |-> bounds,
     viewMat     |-> viewMat,     refreshed   |-> FALSE,
     projMat     |-> projMat,     viewParts   |-> viewParts,
     glLog       |-> <<>>,        retViewport |-> "-",
     assigned    |-> "-",         retWorld    |-> <<>>,
     xform       |-> NoXform]

\* Scene3DCanvas.destroyed
destroyed(c) == ~c.hasRefs

inList(c, o) == o \in Range(c.overlayList)

Raise(c, e) == [c EXCEPT !.exc = e]

\* A queued task whose entry is torn down is marked stale (bookkeeping of
\* the model: the code keeps no such mark).
MarkStale(q, o) ==
    [i \in 1..Len(q) |-> IF q[i].ovl = o THEN [q[i] EXCEPT !.stale = TRUE]
                                         ELSE q[i]]

\* A step of the last call is written to the log: the outcome of
\* self._setGLContext(), a GL call, a call of the GLObject factory or of an
\* adapter.
Log(c, step) ==
    [c EXCEPT !.glLog = Append(@, [step |-> step, ovl |-> "-",
                                   xform |-> NoXform, ret |-> TRUE])]
LogOn(c, step, o) ==
    [c EXCEPT !.glLog = Append(@, [step |-> step, ovl |-> o,
                                   xform |-> NoXform, ret |-> TRUE])]

\* A query of an adapter or of a Display, with the value it returned.
LogRet(c, step, o, ret) ==
    [c EXCEPT !.glLog = Append(@, [step |-> step, ovl |-> o,
                                   xform |-> NoXform, ret |-> ret])]

\* A draw call of an adapter, with the transform it is given.
LogXform(c, step, o) ==
    [c EXCEPT !.glLog = Append(@, [step |-> step, ovl |-> o,
                                   xform |-> c.xform, ret |-> TRUE])]

\* globj.deregister(self.__name); globj.destroy()
destroyAdapter(ads, id) == [ads EXCEPT ![id] = "free"]

\* globj = self.__glObjects.pop(overlay, None)
\* if globj is not None: globj.deregister(self.__name); globj.destroy()
\* The False sentinel is not None, and has no deregister attribute.
popAndDestroy(c, o) ==
    IF ~Has(c.glObjects, o) THEN c
    ELSE LET globj == Get(c.glObjects, o)
             c1    == [c EXCEPT !.glObjects = Pop(c.glObjects, o),
                                !.idleQueue = MarkStale(c.idleQueue, o)]
         IN  IF globj = Pending
             THEN Raise(c1, "AttributeError")
             ELSE LogOn([c1 EXCEPT !.adapters =
                                        destroyAdapter(c.adapters, globj)],
                        "destroy", o)

\* ------------------------------------------------------------------------
\* Scene3DCanvas.__genGLObject: the part that runs at once.  Gives the new
\* record and the value returned.
\* ------------------------------------------------------------------------

\* Mutant: the check for an existing entry is missing.
alreadyHasEntry_missing(c, o) == FALSE

\* if overlay in self.__glObjects: return False
alreadyHasEntry(c, o) == Has(c.glObjects, o)

\* if display.overlayType not in ('volume', 'mesh', 'giftimesh'): return False
typeFilter(c, o) == isRenderableType(c.overlayType[o])

\* self.__glObjects[overlay] = False ... async.idle(create)
schedule(c, o) ==
    [c EXCEPT !.glObjects = Put(c.glObjects, o, Pending),
              !.idleQueue = Append(c.idleQueue, [ovl |-> o, stale |-> FALSE])]

genGLObject(c, o) ==
    IF destroyed(c)          THEN [c |-> Raise(c, "TypeError"), ret |-> FALSE]
    ELSE IF alreadyHasEntry(c, o) THEN [c |-> c, ret |-> FALSE]
    ELSE IF ~inList(c, o)    THEN [c |-> Raise(c, "InvalidOverlayError"),
                                   ret |-> FALSE]
    ELSE IF ~typeFilter(c, o) THEN [c |-> c, ret |-> FALSE]
    ELSE [c |-> schedule(c, o), ret |-> TRUE]

\* ------------------------------------------------------------------------
\* Listeners.  addListener raises RuntimeError when a listener of that name
\* is already registered on the property; removeListener of a name that is
\* not registered does nothing.
\* ------------------------------------------------------------------------

addListener(c, target, prop) ==
    IF c.exc # "none" THEN c
    ELSE IF <<target, prop>> \in c.listeners THEN Raise(c, "RuntimeError")
    ELSE [c EXCEPT !.listeners = @ \cup {<<target, prop>>}]

removeListener(c, target, prop) ==
    [c EXCEPT !.listeners = @ \ {<<target, prop>>}]

\* ------------------------------------------------------------------------
\* Scene3DCanvas.__registerOverlay
\* ------------------------------------------------------------------------

registerOverlay(c, o) ==
    IF ~isRenderableClass(o) THEN c
    ELSE IF destroyed(c)     THEN Raise(c, "AttributeError")
    ELSE IF ~inList(c, o)    THEN Raise(c, "InvalidOverlayError")
    ELSE LET r == genGLObject(c, o)
         IN  IF ~r.ret THEN r.c
             ELSE addListener(addListener(r.c, o, "enabled"),
                              o, "overlayType")

\* ------------------------------------------------------------------------
\* Scene3DCanvas.__deregisterOverlay
\* ------------------------------------------------------------------------

\* Mutant: the InvalidOverlayError of getDisplay is not caught.
removeDisplayListeners_uncaught(c, o) ==
    IF inList(c, o)
    THEN removeListener(removeListener(c, o, "overlayType"), o, "enabled")
    ELSE Raise(c, "InvalidOverlayError")

\* try: display = getDisplay(overlay); display.removeListener(...) x 2
\* except InvalidOverlayError: pass
removeDisplayListeners(c, o) ==
    IF inList(c, o)
    THEN removeListener(removeListener(c, o, "overlayType"), o, "enabled")
    ELSE c

deregisterOverlay(c, o) ==
    IF destroyed(c) THEN Raise(c, "AttributeError")
    ELSE LET c1 == removeDisplayListeners(c, o)
         IN  IF c1.exc # "none" THEN c1 ELSE popAndDestroy(c1, o)

\* ------------------------------------------------------------------------
\* Scene3DCanvas.__overlayTypeChanged (the handler of Display.overlayType)
\* ------------------------------------------------------------------------

\* self.Refresh(): a redraw is requested.
Refresh(c) == IF c.exc # "none" THEN c ELSE [c EXCEPT !.refreshed = TRUE]

overlayTypeChanged(c, o) ==
    IF destroyed(c) THEN Raise(c, "AttributeError")
    ELSE LET c1 == popAndDestroy(c, o)
         IN  IF c1.exc # "none" THEN c1 ELSE Refresh(genGLObject(c1, o).c)

\* ------------------------------------------------------------------------
\* Scene3DCanvas.__overlayListChanged (the handler of OverlayList.overlays)
\* ------------------------------------------------------------------------

RECURSIVE deregisterEach(_, _)
deregisterEach(c, keys) ==
    IF keys = <<>> \/ c.exc # "none" THEN c
    ELSE deregisterEach(deregisterOverlay(c, Head(keys)), Tail(keys))

RECURSIVE registerMissing(_, _)
registerMissing(c, ovls) ==
    IF ovls = <<>> \/ c.exc # "none" THEN c
    ELSE registerMissing(IF Has(c.glObjects, Head(ovls)) THEN c
                         ELSE registerOverlay(c, Head(ovls)),
                         Tail(ovls))

\* keys is list(self.__glObjects.items()) in the order the dictionary gave.
overlayListChanged(c, keys) ==
    IF destroyed(c) THEN Raise(c, "AttributeError")
    ELSE LET gone == SelectSeq(keys, LAMBDA o : ~inList(c, o))
         IN  registerMissing(deregisterEach(c, gone), c.overlayList)

\* ------------------------------------------------------------------------
\* The create() closure of __genGLObject, run by the idle loop.
\*   ctxOk : what self._setGLContext() returns
\*   made  : whether globject.createGLObject returns an adapter (or None)
\* ------------------------------------------------------------------------

\* The id of the adapter createGLObject returns: one not in use.
hasFree(ads) == \E id \in DOMAIN ads : ads[id] = "free"
newAdapter(ads) ==
    CHOOSE id \in DOMAIN ads :
        /\ ads[id] = "free"
        /\ \A j \in DOMAIN ads : ads[j] = "free" => id <= j

\* if not self or self.destroyed(): return
stillAlive(c) == ~destroyed(c)

\* globj.register(self.__name, self.Refresh)
\* self.__glObjects[overlay] = globj
storeAdapter(c, t) ==
    LET id == newAdapter(c.adapters)
    IN  [c EXCEPT !.adapters[id] = t.ovl,
                  !.glObjects    = Put(@, t.ovl, id)]

\* self._setGLContext(), with the value it returns
setGLContext(c, ctxOk) == Log(c, IF ctxOk THEN "context" ELSE "nocontext")

\* Mutant: the work goes on whatever _setGLContext returns.
contextGuard_missing(ctxOk) == TRUE

\* if not self._setGLContext(): ... return
contextGuard(ctxOk) == ctxOk

\* if not self._setGLContext(): self.__glObjects.pop(overlay); return
\* globj = globject.createGLObject(overlay, self.__displayCtx, self, True)
\* if globj is not None: ...
build(c, t, ctxOk, made) ==
    LET c1 == setGLContext(c, ctxOk)
    IN  IF ~contextGuard(ctxOk)
        THEN [c1 EXCEPT !.glObjects = Pop(@, t.ovl),
                        !.idleQueue = MarkStale(@, t.ovl)]
        ELSE LET c2 == Log(c1, "createGLObject")
             IN  IF ~inList(c2, t.ovl) THEN Raise(c2, "InvalidOverlayError")
                 ELSE IF made THEN storeAdapter(c2, t)
                 ELSE c2

\* 'overlay not in self.__glObjects' is a TypeError once __glObjects is None.
create(c, t, ctxOk, made) ==
    IF ~stillAlive(c) THEN c
    ELSE IF destroyed(c) THEN Raise(c, "TypeError")
    ELSE IF ~Has(c.glObjects, t.ovl) THEN c
    ELSE build(c, t, ctxOk, made)

\* ------------------------------------------------------------------------
\* Scene3DCanvas.getGLObjects
\* ------------------------------------------------------------------------

\* Mutant: the overlays of the list in reverse order.
getOrderedOverlays_reversed(c) ==
    [i \in 1..Len(c.overlayList) |->
        c.overlayList[Len(c.overlayList) + 1 - i]]

\* DisplayContext.getOrderedOverlays: the overlays of the list, in the
\* order of the list.
getOrderedOverlays(c) == c.overlayList

\* Mutant: the surfaces always go first.
surfacesFirst_always(c) == TRUE

\* if self.opts.occlusion: ovlOrder = surfs + vols + other
surfacesFirst(c) == c.occlusion

ovlOrder(c) ==
    LET overlays == getOrderedOverlays(c)
        surfs == SelectSeq(overlays,
                           LAMBDA o : overlayClass(o) = "TriangleMesh")
        vols  == SelectSeq(overlays, LAMBDA o : overlayClass(o) = "Image")
        other == SelectSeq(overlays, LAMBDA o : o \notin Range(surfs)
                                             /\ o \notin Range(vols))
    IN  IF surfacesFirst(c) THEN surfs \o vols \o other
                            ELSE vols \o surfs \o other

\* Mutant: 'else' in place of 'elif globj', the sentinel passes too.
isReady_always(globj) == TRUE

\* elif globj: the entry is appended to the result
isReady(globj) == globj # Pending

RECURSIVE getLoop(_, _, _, _)
getLoop(c, order, ovs, objs) ==
    IF order = <<>> \/ c.exc # "none"
    THEN [c |-> c, overlays |-> ovs, globjs |-> objs]
    ELSE LET ovl == Head(order)
         IN  IF ~Has(c.glObjects, ovl)
             THEN getLoop(registerOverlay(c, ovl), Tail(order), ovs, objs)
             ELSE IF isReady(Get(c.glObjects, ovl))
             THEN getLoop(c, Tail(order), Append(ovs, ovl),
                          Append(objs, Get(c.glObjects, ovl)))
             ELSE getLoop(c, Tail(order), ovs, objs)

getGLObjects(c) ==
    IF destroyed(c)
    THEN [c |-> Raise(c, "AttributeError"), overlays |-> <<>>,
          globjs |-> <<>>]
    ELSE getLoop(c, ovlOrder(c), <<>>, <<>>)

\* ------------------------------------------------------------------------
\* Scene3DCanvas.destroy
\* ------------------------------------------------------------------------

\* self.__opts = self.__displayCtx = self.__overlayList = self.__glObjects
\*             = None
dropRefs(c) == [c EXCEPT !.hasRefs = FALSE, !.glObjects = <<>>]

\* keys is list(self.__glObjects.keys()) in the order the dictionary gave.
destroy(c, keys) ==
    IF destroyed(c) THEN Raise(c, "AttributeError")
    ELSE LET c1 == removeListener(removeListener(c, "overlayList",
                                                 "overlays"),
                                  "displayCtx", "bounds")
             c2 == deregisterEach(c1, keys)
         IN  IF c2.exc # "none" THEN c2 ELSE dropRefs(c2)

\* destroy() has been called, whether or not it returned: it is the one
\* place where the listener on the overlay list is removed.
destroyCalled == <<"overlayList", "overlays">> \notin listeners

\* ------------------------------------------------------------------------
\* Options.  __init__ adds a Refresh listener on nine options of self.opts;
\* the options object has three more that the canvas reads.
\* ------------------------------------------------------------------------

optNames ==
    {"pos", "showCursor", "cursorColour", "bgColour", "showLegend",
     "occlusion", "zoom", "offset", "rotation",
     "lightPos", "light", "legendColour"}

\* opts.addListener(name, self.__name, self.Refresh), lines 52-60
refreshOpts ==
    {"pos", "showCursor", "cursorColour", "bgColour", "showLegend",
     "occlusion", "zoom", "offset", "rotation"}

\* The value stored by an assignment to zoom: the value, brought into the
\* range of the constraints.
clampZoom(k, v) ==
    IF v < k.minval THEN k.minval ELSE IF v > k.maxval THEN k.maxval ELSE v

\* An assignment opts.<name> = value.  For the options whose value the
\* model keeps, the new record; for the others the record as it is.
assignOpt(c, name, v) ==
    CASE name = "occlusion"  -> [c EXCEPT !.occlusion = v]
      [] name = "showCursor" -> [c EXCEPT !.opts.showCursor = v]
      [] name = "showLegend" -> [c EXCEPT !.opts.showLegend = v]
      [] name = "zoom"       -> [c EXCEPT !.opts.zoom =
                                            clampZoom(zoomConstraints, v)]
      [] name = "rotation"   -> [c EXCEPT !.opts.rotation = v]
      [] name = "offset"     -> [c EXCEPT !.opts.offset = v]
      [] name = "lightPos"   -> [c EXCEPT !.opts.lightPos = v]
      [] OTHER               -> c

\* The listeners of the option run when its value changed.
optChanged(c, name) ==
    IF name \in refreshOpts THEN Refresh(c) ELSE c

\* ------------------------------------------------------------------------
\* Scene3DCanvas.defaultLightPos and __displayBoundsChanged
\* ------------------------------------------------------------------------

\* b.xlen, b.ylen, b.zlen
blen(b, i) == b[2][i] - b[1][i]

\* Mutant: the light is put at the centre of the bounds.
lightPosOf_centre(b) == [i \in 1..3 |-> 2 * b[1][i] + blen(b, i)]

\* centre + [b.xlen, b.ylen, 0], centre = lo + 0.5 * (hi - lo).  The light
\* position is kept in half units, so that 0.5 * (hi - lo) is whole.
lightPosOf(b) ==
    [i \in 1..3 |-> 2 * b[1][i] + blen(b, i)
                      + (IF i < 3 THEN 2 * blen(b, i) ELSE 0)]

defaultLightPos(c) ==
    IF destroyed(c) THEN Raise(c, "AttributeError")
    ELSE [c EXCEPT !.opts.lightPos = lightPosOf(c.bounds)]

displayBoundsChanged(c) ==
    Refresh(IF c.resetLightPos THEN defaultLightPos(c) ELSE c)

\* ------------------------------------------------------------------------
\* Scene3DCanvas._initGL
\* ------------------------------------------------------------------------

\* self.__overlayListChanged(); self.__displayBoundsChanged()
initGL(c, keys) ==
    LET c1 == overlayListChanged(c, keys)
    IN  IF c1.exc # "none" THEN c1 ELSE displayBoundsChanged(c1)

\* ------------------------------------------------------------------------
\* Scene3DCanvas.__setViewport and __genViewMatrix
\* ------------------------------------------------------------------------

Abs(n) == IF n < 0 THEN -n ELSE n

\* np.isclose(a, b): |a - b| <= atol + rtol * |b|, with atol = 1e-8 and
\* rtol = 1e-5.  For whole a and b, |a - b| * 1e8 <= 1 + 1000 * |b| is
\* |a - b| * 1e5 <= |b|: the absolute tolerance is less than the distance
\* of any two different whole numbers, the relative one is not.
isclose(a, b) == Abs(a - b) <= Abs(b) \div 100000

\* np.sum(np.isclose(blo, bhi))
flatAxes(b) == Cardinality({i \in 1..3 : isclose(b[1][i], b[2][i])})

\* Mutant: no flat axis is allowed.
tooFlat_any(b) == flatAxes(b) > 0

\* if np.sum(np.isclose(blo, bhi)) > 1: return False
tooFlat(b) == flatAxes(b) > 1

\* self.__viewMat = np.eye(4), in __init__
eye ==
    [eye |-> TRUE, zoom |-> 100, rotation |-> 0, offset |-> <<0, 0>>,
     bounds |-> Box(<<0, 0>>, <<0, 0>>, <<0, 0>>), size |-> <<1, 1>>]

\* ------------------------------------------------------------------------
\* Floating-point values, kept as exact fractions <<n, d>> in lowest terms
\* with d > 0 (rounding is not modelled).
\* ------------------------------------------------------------------------

RECURSIVE GCD(_, _)
GCD(a, b) == IF b = 0 THEN a ELSE GCD(b, a % b)

Frac(n, d) ==
    LET g == GCD(Abs(n), Abs(d))
        k == IF d < 0 THEN -g ELSE g
    IN  <<n \div k, d \div k>>

FInt(n) == <<n, 1>>
FAdd(a, b) == Frac(a[1] * b[2] + b[1] * a[2], a[2] * b[2])
FSub(a, b) == Frac(a[1] * b[2] - b[1] * a[2], a[2] * b[2])
FMul(a, b) == Frac(a[1] * b[1], a[2] * b[2])
FDiv(a, b) == Frac(a[1] * b[2], a[2] * b[1])

\* ------------------------------------------------------------------------
\* The view matrix offset . scale . camera . rotate of __genViewMatrix,
\* applied to a point and inverted, computed from what the matrix was made
\* of.  Points are triples of fractions.
\*   rotate : transform.rotMatToAffine(opts.rotation, centre), k quarter
\*            turns about the z axis through the centre
\*   camera : glroutines.lookAt(eye, centre, up), eye = centre + (0, 1, 0),
\*            up the z axis; the centre goes to (0, 0, -1)
\*   scale  : opts.zoom / 100.0
\*   offset : (xlen * offset[0] / 2, ylen * offset[1] / 2, 0), xlen and
\*            ylen the adjusted extents
\* ------------------------------------------------------------------------

\* glroutines.adjust(x, y, w, h): the extents, one of them grown to the
\* width/height ratio of the canvas.
adjust(x, y, w, h) ==
    IF x[1] * h * y[2] < y[1] * w * x[2]
    THEN <<FDiv(FMul(y, FInt(w)), FInt(h)), y>>
    ELSE <<x, FDiv(FMul(x, FInt(h)), FInt(w))>>

\* The four matrices __genViewMatrix makes, from what they are made of:
\* the rotation by its quarter turns and its centre, the camera by the
\* centre it looks at, the scale by its factor, the offset by its shift.
viewPartsOf(vm) ==
    LET b   == vm.bounds
        ctr == [i \in 1..3 |-> Frac(b[1][i] + b[2][i], 2)]
        a   == adjust(FInt(blen(b, 1)), FInt(blen(b, 2)),
                      vm.size[1], vm.size[2])
    IN  [offset |-> <<FMul(a[1], Frac(vm.offset[1], 2)),
                      FMul(a[2], Frac(vm.offset[2], 2)), FInt(0)>>,
         scale  |-> Frac(vm.zoom, 100),
         rotate |-> [turns |-> vm.rotation, centre |-> ctr],
         camera |-> ctr]

\* The four matrices applied to a point.
applyRotate(rot, p) ==
    IF rot.turns = 0 THEN p
    ELSE <<FSub(rot.centre[1], FSub(p[2], rot.centre[2])),
           FAdd(rot.centre[2], FSub(p[1], rot.centre[1])), p[3]>>

applyCamera(ctr, r) ==
    <<FSub(ctr[1], r[1]), FSub(r[3], ctr[3]),
      FSub(r[2], FAdd(ctr[2], FInt(1)))>>

applyScale(sc, v) == <<FMul(sc, v[1]), FMul(sc, v[2]), FMul(sc, v[3])>>

applyOffset(t, v) == <<FAdd(v[1], t[1]), FAdd(v[2], t[2]), FAdd(v[3], t[3])>>

\* Mutant: the scale is applied after the offset.
concat_scaleLast(offset, scale, camera, rotate, p) ==
    applyScale(scale,
        applyOffset(offset, applyCamera(camera, applyRotate(rotate, p))))

\* transform.concat(offset, scale, camera, rotate): the product of the
\* four matrices, so that the rightmost acts on a point first
concat(offset, scale, camera, rotate, p) ==
    applyOffset(offset,
        applyScale(scale, applyCamera(camera, applyRotate(rotate, p))))

\* transform.transform(p, self.__viewMat)
applyView(vm, p) ==
    IF vm.eye THEN p
    ELSE LET parts == viewPartsOf(vm)
         IN  concat(parts.offset, parts.scale, parts.camera, parts.rotate, p)

\* transform.transform(pos, transform.invert(self.__viewMat)): the
\* inverses of the four matrices, in the reverse order
invertView(vm, v) ==
    IF vm.eye THEN v
    ELSE LET b   == vm.bounds
             ctr == [i \in 1..3 |-> Frac(b[1][i] + b[2][i], 2)]
             sc  == Frac(vm.zoom, 100)
             a   == adjust(FInt(blen(b, 1)), FInt(blen(b, 2)),
                           vm.size[1], vm.size[2])
             t   == <<FMul(a[1], Frac(vm.offset[1], 2)),
                      FMul(a[2], Frac(vm.offset[2], 2)), FInt(0)>>
             u   == [i \in 1..3 |-> FDiv(FSub(v[i], t[i]), sc)]
             r   == <<FSub(ctr[1], u[1]),
                      FAdd(FAdd(ctr[2], FInt(1)), u[3]),
                      FAdd(ctr[3], u[2])>>
         IN  IF vm.rotation = 0 THEN r
             ELSE <<FAdd(ctr[1], FSub(r[2], ctr[2])),
                    FSub(ctr[2], FSub(r[1], ctr[1])), r[3]>>

\* The view matrix is a function of zoom, rotation, offset, the bounds and
\* the canvas size; the model keeps what it was computed from, and the
\* four matrices it is the product of.
genViewMatrix(c) ==
    LET vm == [eye |-> FALSE, zoom |-> c.opts.zoom,
               rotation |-> c.opts.rotation, offset |-> c.opts.offset,
               bounds |-> c.bounds, size |-> c.size]
    IN  [c EXCEPT !.viewMat = vm, !.viewParts = <<viewPartsOf(vm)>>]

\* glroutines.ortho(blo, bhi, width, height, zoom): the projection matrix
\* is a function of the bounds, the canvas size and the zoom; the model
\* keeps what it was computed from.
ortho(b, sz, zoom) ==
    [eye |-> FALSE, zoom |-> zoom, bounds |-> b, size |-> sz]

\* Gives the new record and the value returned.
setViewport(c) ==
    IF destroyed(c)
    THEN [c |-> Raise(c, "AttributeError"), ret |-> FALSE]
    ELSE IF c.size[1] = 0 \/ c.size[2] = 0
    THEN [c |-> [c EXCEPT !.retViewport = "False"], ret |-> FALSE]
    ELSE IF tooFlat(c.bounds)
    THEN [c |-> [c EXCEPT !.retViewport = "False"], ret |-> FALSE]
    ELSE LET c1 == genViewMatrix(c)
             c2 == [c1 EXCEPT !.projMat = ortho(c.bounds, c.size,
                                                c.opts.zoom)]
         IN  [c |-> [Log(c2, "glViewport") EXCEPT !.retViewport = "True"],
              ret |-> TRUE]

\* ------------------------------------------------------------------------
\* Scene3DCanvas.canvasToWorld(xpos, ypos).  The division by the width and
\* the height raises when one of them is zero.
\* ------------------------------------------------------------------------

\* Mutant: the viewport coordinate is counted from the corner.
toViewport_corner(len, pos, n) == FMul(len, FDiv(pos, FInt(n)))

\* xpos = xlen * (xpos / float(width)) - xhalf, xhalf = 0.5 * xlen
toViewport(len, pos, n) ==
    FSub(FMul(len, FDiv(pos, FInt(n))), FMul(Frac(1, 2), len))

\* Mutant: the view matrix is generated anew from the current options,
\* bounds and size.
cachedViewMat_regenerated(c) == genViewMatrix(c)

\* self.__viewMat is read as it is: __genViewMatrix is not called
cachedViewMat(c) == c

canvasToWorld(c, xpos, ypos) ==
    IF destroyed(c) THEN Raise(c, "AttributeError")
    ELSE IF c.size[1] = 0 \/ c.size[2] = 0
    THEN Raise(c, "ZeroDivisionError")
    ELSE LET a   == adjust(FInt(blen(c.bounds, 1)), FInt(blen(c.bounds, 2)),
                           c.size[1], c.size[2])
             pos == <<toViewport(a[1], xpos, c.size[1]),
                      toViewport(a[2], ypos, c.size[2]), FInt(-1)>>
             c1  == cachedViewMat(c)
         IN  [c1 EXCEPT !.retWorld = invertView(c1.viewMat, pos)]

\* ------------------------------------------------------------------------
\* Scene3DCanvas._draw
\*   ctxOk : what self._setGLContext() returns
\*   rdy   : the overlays whose adapter answers ready() with True
\*   en    : the overlays whose Display.enabled is True
\* ------------------------------------------------------------------------

\* xform = np.array(self.__viewMat, dtype=np.float32, copy=False)
initXform(c) == [c EXCEPT !.xform = [depth |-> 0, view |-> c.viewMat]]

\* Mutant: no depth offset is concatenated.
concatDepthOffset_none(c) == c

\* xform = transform.concat(depthOffset, xform)
concatDepthOffset(c) == [c EXCEPT !.xform.depth = @ + 1]

\* Mutant: the depth buffer is cleared before every overlay when
\* occlusion is off.
clearsDepth_any(c, o) == ~c.occlusion

\* if opts.occlusion: ... elif isinstance(ovl, fslimage.Image): glClear
clearsDepth(c, o) == ~c.occlusion /\ overlayClass(o) = "Image"

\* Mutant: a disabled overlay is drawn too.
enabledGuard_missing(o, en) == TRUE

\* if not display.enabled: continue
enabledGuard(o, en) == o \in en

\* One overlay of the loop over zip(overlays, globjs).
drawOverlay(c, o, rdy, en) ==
    IF ~inList(c, o) THEN Raise(c, "InvalidOverlayError")
    ELSE LET c0 == LogRet(c, "ready", o, o \in rdy)
         IN  IF o \notin rdy THEN c0
             ELSE LET c1 == LogRet(c0, "enabled", o, o \in en)
                      c2 == IF c1.occlusion THEN concatDepthOffset(c1)
                            ELSE IF clearsDepth(c1, o)
                            THEN LogOn(c1, "glClear", o)
                            ELSE c1
                  IN  IF ~enabledGuard(o, en) THEN c1
                      ELSE LogXform(LogXform(LogXform(c2, "preDraw", o),
                                             "draw3D", o), "postDraw", o)

RECURSIVE drawLoop(_, _, _, _)
drawLoop(c, ovs, rdy, en) ==
    IF ovs = <<>> \/ c.exc # "none" THEN c
    ELSE drawLoop(drawOverlay(c, Head(ovs), rdy, en), Tail(ovs), rdy, en)

\* if opts.showCursor: self.__drawCursor()
\* if opts.showLegend: self.__drawLegend()
drawCursorLegend(c) ==
    IF c.exc # "none" THEN c
    ELSE LET c1 == IF c.opts.showCursor THEN Log(c, "drawCursor") ELSE c
         IN  IF c1.opts.showLegend THEN Log(c1, "drawLegend") ELSE c1

\* Mutant: the frame goes on whatever __setViewport returns.
viewportGuard_missing(ret) == TRUE

\* if not self.__setViewport(): return
viewportGuard(ret) == ret

\* The frame once the rendering context is current.  On a destroyed canvas
\* self.opts is None and opts.bgColour raises.
drawFrame(c, rdy, en) ==
    IF destroyed(c) THEN Raise(c, "AttributeError")
    ELSE LET v == setViewport(Log(c, "clear"))
         IN  IF v.c.exc # "none" \/ ~viewportGuard(v.ret) THEN v.c
             ELSE LET g == getGLObjects(v.c)
                  IN  IF g.c.exc # "none" \/ g.overlays = <<>> THEN g.c
                      ELSE drawCursorLegend(
                               drawLoop(initXform(g.c), g.overlays, rdy, en))

draw(c, ctxOk, rdy, en) ==
    LET c1 == setGLContext(c, ctxOk)
    IN  IF ~contextGuard(ctxOk) THEN c1 ELSE drawFrame(c1, rdy, en)

\* ------------------------------------------------------------------------
\* loadoverlay.loadOverlays(paths, loadFunc, errorFunc, saveDir, onLoad),
\* with the closures loadPath and realOnLoad that it queues on the idle
\* loop.  An overlay object is named by the path it was loaded from.
\* ------------------------------------------------------------------------

\* The files: an image, a mesh, a file of no known type and an image file
\* whose loading raises.
Paths == {"a.nii", "m.vtk", "x.txt", "bad.nii"}

\* The lists of paths loadOverlays is called with.
PathLists == UNION {[1..n -> Paths] : n \in 0..MaxPaths}

\* The calls of loadOverlays.
Loads == {1, 2}

notCalled ==
    [started |-> FALSE, paths |-> <<>>, overlays |-> <<>>, errors |-> <<>>,
     loadFunc |-> <<>>, onLoad |-> <<>>, ret |-> "-"]

\* dtype, path = fsloverlay.guessDataSourceType(path)
guessDataSourceType(path) ==
    CASE path \in {"a.nii", "bad.nii"} -> "Image"
      [] path = "m.vtk" -> "Model"
      [] OTHER -> "None"

\* loadImage(dtype, path) or dtype(path) raises
loadRaises(path) == path = "bad.nii"

\* Mutant: no try/except around the loading; the exception leaves the
\* task.
loadPath_uncaught(l, path) ==
    LET l1 == [l EXCEPT !.loadFunc = Append(@, path)]
    IN  IF guessDataSourceType(path) = "None"
        THEN [l1 EXCEPT !.errors = Append(@, path)]
        ELSE IF loadRaises(path) THEN l1
        ELSE [l1 EXCEPT !.overlays = Append(@, path)]

\* l is the record of the call whose closure this is.
loadPath(l, path) ==
    LET l1 == [l EXCEPT !.loadFunc = Append(@, path)]
    IN  IF guessDataSourceType(path) = "None"
        THEN [l1 EXCEPT !.errors = Append(@, path)]
        ELSE IF loadRaises(path)
        THEN [l1 EXCEPT !.errors = Append(@, path)]
        ELSE [l1 EXCEPT !.overlays = Append(@, path)]

\* if onLoad is not None: onLoad(overlays)
realOnLoad(l) == [l EXCEPT !.onLoad = Append(@, l.overlays)]

\* The body of loadOverlays: overlays = [], a loadPath task for each path,
\* then a realOnLoad task.  There is no return statement: the call
\* returns None.
loadOverlays(L, id, paths) ==
    [loads |-> [L.loads EXCEPT ![id] =
                  [notCalled EXCEPT !.started = TRUE, !.paths = paths,
                                    !.ret = "None"]],
     idle  |-> L.idle
               \o [i \in 1..Len(paths) |->
                      [fn |-> "loadPath", id |-> id, path |-> paths[i]]]
               \o <<[fn |-> "realOnLoad", id |-> id, path |-> "-"]>>]

\* ------------------------------------------------------------------------
\* OrthoLabels on one canvas (the z canvas; the other two are None), with
\* the properties its label refresh listens to and reads.  A listener is
\* [prop, name, callback, immediate].  When a property changes, its
\* immediate listeners are called before the assignment returns; a
\* listener that is not immediate is put on the call queue, once, and
\* called later.  The panel that owns the labels listens to the same
\* properties with a listener that is not immediate and then draws the
\* annotations as they are.
\* ------------------------------------------------------------------------

\* The properties of the refresh listeners: invertX, invertY of the canvas,
\* showLabels, labelSize, labelColour of the ortho options, and
\* selectedOverlay, displaySpace, radioOrientation of the display context.
LabelProps ==
    {"invertX", "invertY", "showLabels", "labelSize", "labelColour",
     "selectedOverlay", "displaySpace", "radioOrientation"}

\* The values of the overlay list of the labels: empty, the image V1, and
\* V1 with the mesh S1, which has no reference image.
LabelLists == {<<>>, <<"V1">>, <<"V1", "S1">>}

\* The values each takes; the first is the one it starts with.
\* selectedOverlay is an index into the overlay list.
labelValues(prop) ==
    CASE prop \in {"invertX", "invertY", "radioOrientation"}
                                  -> <<FALSE, TRUE>>
      [] prop = "showLabels"      -> <<TRUE, FALSE>>
      [] prop = "labelSize"       -> <<14, 10>>
      [] prop = "labelColour"     -> <<"white", "green">>
      [] prop = "selectedOverlay" -> <<0, 1>>
      [] prop = "displaySpace"    -> <<"world", "V1">>

\* The properties that hold another value than their initial one.
changedProps(props) == {p \in LabelProps : props[p] # labelValues(p)[1]}

\* The name of DisplayOpts.bounds of an overlay as a listener target.
boundsOf(o) == IF o = "V1" THEN "V1.bounds" ELSE "S1.bounds"

\* Mutant: the refresh listeners are not immediate.
refreshArgs_queued(name) ==
    [name |-> name, callback |-> "refreshLabels", immediate |-> FALSE]

\* refreshArgs = {'name': name, 'callback': self.__refreshLabels,
\*                'immediate': True}
refreshArgs(name) ==
    [name |-> name, callback |-> "refreshLabels", immediate |-> TRUE]

\* The Text annotations as annot.text('', ...) makes them: no text yet.
newAnnots ==
    [enabled |-> TRUE, fontSize |-> 10, colour |-> "white",
     text |-> [ref |-> "-", displaySpace |-> "-", radioOrientation |-> FALSE,
               invertX |-> FALSE, invertY |-> FALSE],
     destroyed |-> FALSE]

\* OrthoLabels.__init__ over an empty overlay list, after the panel
\* registered its own listeners.  bgColour and showZCanvas are read by the
\* refresh and not changed here.  stale tells that the overlay list has
\* changed since the labels were last refreshed.
initLabels ==
    [props     |-> [p \in LabelProps \cup {"bgColour", "showZCanvas"} |->
                      CASE p = "bgColour"    -> "black"
                        [] p = "showZCanvas" -> TRUE
                        [] OTHER             -> labelValues(p)[1]],
     overlays  |-> <<>>,
     hasRefs   |-> TRUE,
     listeners |-> {[prop |-> p, name |-> "OrthoPanel",
                     callback |-> "panelRefresh", immediate |-> FALSE] :
                        p \in LabelProps}
                   \cup {[prop |-> p] @@ refreshArgs("OrthoLabels") :
                            p \in LabelProps}
                   \cup {[prop |-> "overlays", name |-> "OrthoLabels",
                          callback |-> "overlayListChanged",
                          immediate |-> FALSE]},
     annots    |-> newAnnots,
     queue     |-> <<>>,
     ran       |-> {},
     op        |-> "init",
     painted   |-> <<>>,
     stale     |-> FALSE,
     exc       |-> "none"]

\* displayCtx.getSelectedOverlay(): None for an empty list
getSelectedOverlay(L) ==
    IF L.overlays = <<>> THEN "none"
    ELSE L.overlays[L.props.selectedOverlay + 1]

\* displayCtx.getReferenceImage(overlay)
referenceImage(overlay) == IF overlay = "V1" THEN "V1" ELSE "none"

\* OrthoLabels.__refreshLabels.  The label texts are a function of the
\* reference image, the display space, the radiological flag and the two
\* inversions; the model keeps what they were computed from.  Without a
\* reference image every label is '?' and the orientation is unknown.
\* After destroy() self.__displayCtx is None.
refreshLabels(L) ==
    LET sopts   == L.props
        overlay == getSelectedOverlay(L)
        ref     == referenceImage(overlay)
        a0      == [L.annots EXCEPT
                       !.enabled = sopts.showLabels /\ overlay # "none"]
        fg      == IF ref = "none" /\ sopts.bgColour \in {"black", "white"}
                   THEN "red" ELSE sopts.labelColour
        text    == IF ref = "none"
                   THEN [ref |-> "none", displaySpace |-> "-",
                         radioOrientation |-> FALSE,
                         invertX |-> FALSE, invertY |-> FALSE]
                   ELSE [ref |-> ref, displaySpace |-> sopts.displaySpace,
                         radioOrientation |-> sopts.radioOrientation,
                         invertX |-> sopts.invertX,
                         invertY |-> sopts.invertY]
    IN  IF ~L.hasRefs
        THEN [L EXCEPT !.exc = "AttributeError",
                       !.ran = @ \cup {"refreshLabels"}]
        ELSE IF ~sopts.showLabels \/ overlay = "none"
        THEN [L EXCEPT !.annots = a0, !.ran = @ \cup {"refreshLabels"},
                       !.stale = FALSE]
        ELSE [L EXCEPT !.annots = [enabled   |-> sopts.showZCanvas,
                                   fontSize  |-> sopts.labelSize,
                                   colour    |-> fg,
                                   text      |-> text,
                                   destroyed |-> L.annots.destroyed],
                       !.ran = @ \cup {"refreshLabels"},
                       !.stale = FALSE]

\* opts.addListener('bounds', self.__name, self.__refreshLabels,
\*                  overwrite=True)
addBoundsListener(L, o) ==
    [L EXCEPT !.listeners =
        @ \cup {[prop |-> boundsOf(o), name |-> "OrthoLabels",
                 callback |-> "refreshLabels", immediate |-> FALSE]}]

RECURSIVE addBoundsListeners(_, _)
addBoundsListeners(L, ovls) ==
    IF ovls = <<>> THEN L
    ELSE addBoundsListeners(addBoundsListener(L, Head(ovls)), Tail(ovls))

\* OrthoLabels.__overlayListChanged.  After destroy() self.__overlayList
\* is None and enumerate raises.
labelsOverlayListChanged(L) ==
    IF ~L.hasRefs
    THEN [L EXCEPT !.exc = "TypeError",
                   !.ran = @ \cup {"overlayListChanged"}]
    ELSE LET L1 == addBoundsListeners(
                       [L EXCEPT !.ran = @ \cup {"overlayListChanged"}],
                       L.overlays)
         IN  IF Len(L.overlays) \in {0, 1} THEN refreshLabels(L1) ELSE L1

\* OrthoLabels.destroy: the references are dropped, the listeners removed
\* (those on DisplayOpts.bounds for the overlays of the list) and the Text
\* annotations destroyed.  On a destroyed object orthoOpts is None.
destroyLabels(L) ==
    IF ~L.hasRefs THEN [L EXCEPT !.exc = "AttributeError"]
    ELSE LET gone == LabelProps \cup {"overlays"}
                       \cup {boundsOf(o) : o \in Range(L.overlays)}
         IN  [L EXCEPT !.hasRefs = FALSE,
                       !.listeners = {l \in @ : ~(l.name = "OrthoLabels"
                                                   /\ l.prop \in gone)},
                       !.annots.destroyed = TRUE]

\* The panel draws the annotations as they are.
panelRefresh(L) ==
    [L EXCEPT !.painted = <<L.annots>>, !.ran = @ \cup {"panelRefresh"}]

callListener(L, cb) ==
    CASE cb = "refreshLabels"      -> refreshLabels(L)
      [] cb = "overlayListChanged" -> labelsOverlayListChanged(L)
      [] OTHER                     -> panelRefresh(L)

\* The listeners of the property are notified, in the order OrthoLabels,
\* OrthoPanel: an immediate one is called, another one is queued unless
\* it is queued already.
RECURSIVE notifyEach(_, _)
notifyEach(L, ls) ==
    IF ls = <<>> THEN L
    ELSE LET l == Head(ls)
         IN  notifyEach(
                 IF l.immediate THEN callListener(L, l.callback)
                 ELSE IF l.callback \in Range(L.queue) THEN L
                 ELSE [L EXCEPT !.queue = Append(@, l.callback)],
                 Tail(ls))

\* The listeners of a property are notified of a change of its value.
notifyLabels(L, prop) ==
    LET ls == SelectSeq(<<"OrthoLabels", "OrthoPanel">>,
                        LAMBDA n : \E l \in L.listeners :
                                       l.prop = prop /\ l.name = n)
    IN  notifyEach(L, [i \in 1..Len(ls) |->
                          CHOOSE l \in L.listeners :
                              l.prop = prop /\ l.name = ls[i]])

\* The record at the start of a call.
startCall(L, op) ==
    [L EXCEPT !.ran = {}, !.op = op, !.painted = <<>>, !.exc = "none"]

\* An assignment to one of the properties that changes its value.
assignLabelProp(L, prop, v) ==
    notifyLabels([startCall(L, "assign") EXCEPT !.props[prop] = v], prop)

\* The overlay list changes: the display context drops the DisplayOpts of
\* the overlays that left (with the listeners on them), and the listeners
\* of the list are notified.
setLabelOverlays(L, new) ==
    notifyLabels(
        [startCall(L, "listChanged") EXCEPT
            !.overlays  = new,
            !.stale     = TRUE,
            !.listeners = {l \in @ :
                             \A o \in Range(L.overlays) \ Range(new) :
                                 l.prop # boundsOf(o)}],
        "overlays")

\* ------------------------------------------------------------------------
\* Initial state: the canvas as __init__ leaves it, over any overlay list.
\* ------------------------------------------------------------------------

NoCall == [op |-> "init", ovl |-> "-"]

\* The options as Scene3DOpts.__init__ leaves them: zoom 75, no rotation,
\* no offset.
defaultOpts ==
    [showCursor |-> TRUE, showLegend |-> TRUE,
     zoom |-> zoomConstraints.default, rotation |-> 0, offset |-> <<0, 0>>,
     lightPos |-> <<0, 0, 0>>]

InitOpts(s, b, op) ==
    /\ overlayList \in OverlayLists
    /\ overlayType = [o \in Overlays |-> defaultOverlayType(o)]
    /\ occlusion = TRUE
    /\ hasRefs = TRUE
    /\ glObjects = <<>>
    /\ idleQueue = <<>>
    /\ listeners = {<<"overlayList", "overlays">>, <<"displayCtx", "bounds">>}
    /\ adapters = [id \in 1..MaxAdapters |-> "free"]
    /\ raised = "none"
    /\ lastCall = NoCall
    /\ retOverlays = <<>>
    /\ retGlobjs = <<>>
    /\ oldTasks = 0
    /\ opts = op
    /\ resetLightPos = TRUE
    /\ size = s
    /\ bounds = b
    /\ viewMat = eye
    /\ projMat = eye
    /\ viewParts = <<>>
    /\ refreshed = FALSE
    /\ glLog = <<>>
    /\ retViewport = "-"
    /\ assigned = "-"
    /\ retWorld = <<>>
    /\ loads = [id \in Loads |-> notCalled]
    /\ loadIdle = <<>>
    /\ labels = initLabels

InitState(s, b) == InitOpts(s, b, defaultOpts)

Init == InitState(InitSize, InitBounds)

\* The next state is the record a handler produced.
Commit(w, op, o, ovs, objs) ==
    /\ Len(w.idleQueue) <= MaxQueue
    /\ overlayList' = w.overlayList
    /\ overlayType' = w.overlayType
    /\ occlusion' = w.occlusion
    /\ hasRefs' = w.hasRefs
    /\ glObjects' = w.glObjects
    /\ idleQueue' = w.idleQueue
    /\ listeners' = w.listeners
    /\ adapters' = w.adapters
    /\ raised' = w.exc
    /\ lastCall' = [op |-> op, ovl |-> o]
    /\ retOverlays' = ovs
    /\ retGlobjs' = objs
    /\ oldTasks' = w.oldTasks
    /\ opts' = w.opts
    /\ resetLightPos' = w.resetLightPos
    /\ size' = w.size
    /\ bounds' = w.bounds
    /\ viewMat' = w.viewMat
    /\ projMat' = w.projMat
    /\ viewParts' = w.viewParts
    /\ refreshed' = w.refreshed
    /\ glLog' = w.glLog
    /\ retViewport' = w.retViewport
    /\ assigned' = w.assigned
    /\ retWorld' = w.retWorld
    /\ UNCHANGED <<loads, loadIdle, labels>>

\* ------------------------------------------------------------------------
\* Actions
\* ------------------------------------------------------------------------

\* The overlay list is changed (overlays added, removed, reordered, one or
\* several at once).  The display context drops the Display record of every
\* removed overlay, and an overlay that enters the list gets a fresh one.
\* The canvas's __overlayListChanged runs if it is still subscribed.
dropDisplays(c, new) ==
    [c EXCEPT
       !.overlayList = new,
       !.overlayType = [o \in Overlays |->
                          IF o \in Range(new) THEN @[o]
                          ELSE defaultOverlayType(o)],
       !.listeners   = {l \in @ : l[1] \in Overlays => l[1] \in Range(new)}]

SetOverlayList ==
    \E new \in OverlayLists \ {overlayList} :
        LET w == dropDisplays(World, new)
        IN  /\ IF <<"overlayList", "overlays">> \in listeners
               THEN \E keys \in Keys(glObjects) :
                      Commit(overlayListChanged(w, keys),
                             "overlayListChanged", "-", <<>>, <<>>)
               ELSE Commit(w, "setOverlayList", "-", <<>>, <<>>)

\* Display.overlayType of an overlay of the list is changed.  The canvas's
\* __overlayTypeChanged runs if it is subscribed on that Display.
SetOverlayType ==
    \E o \in Range(overlayList) :
      \E i \in 1..Len(overlayTypesOf(o)) :
        LET t == overlayTypesOf(o)[i]
            w == [World EXCEPT !.overlayType[o] = t]
        IN  /\ t # overlayType[o]
            /\ IF <<o, "overlayType">> \in listeners
               THEN Commit(overlayTypeChanged(w, o), "overlayTypeChanged", o,
                           <<>>, <<>>)
               ELSE Commit(w, "setOverlayType", o, <<>>, <<>>)

\* A call of __registerOverlay(o).
RegisterOverlay ==
    \E o \in Overlays :
        /\ Commit(registerOverlay(World, o), "registerOverlay", o, <<>>, <<>>)

\* A call of __deregisterOverlay(o).
DeregisterOverlay ==
    \E o \in Overlays :
        /\ Commit(deregisterOverlay(World, o), "deregisterOverlay", o,
                  <<>>, <<>>)

\* A call of getGLObjects().
GetGLObjects ==
    LET r == getGLObjects(World)
    IN  IF r.c.exc = "none"
        THEN Commit(r.c, "getGLObjects", "-", r.overlays, r.globjs)
        ELSE Commit(r.c, "getGLObjects", "-", <<>>, <<>>)

\* A call of destroy().
Destroy ==
    \E keys \in Keys(glObjects) :
        LET w == destroy(World, keys)
        IN  Commit([w EXCEPT !.oldTasks = Len(w.idleQueue)], "destroy", "-",
                   <<>>, <<>>)

\* The idle loop runs the create() closure at the head of its queue.
RunIdle ==
    /\ idleQueue # <<>>
    /\ \E ctxOk \in BOOLEAN, made \in BOOLEAN :
         LET t == Head(idleQueue)
             w == [World EXCEPT !.idleQueue = Tail(@),
                                !.oldTasks  = IF @ > 0 THEN @ - 1 ELSE 0]
         IN  /\ made => hasFree(adapters)
             /\ Commit(create(w, t, ctxOk, made), "create", t.ovl,
                       <<>>, <<>>)

\* ------------------------------------------------------------------------
\* Actions on the options, the size, the bounds and the frame
\* ------------------------------------------------------------------------

\* The rotations assigned: none and a quarter turn about the z axis.
Rotations == {0, 1}

\* The offsets assigned, as fractions of half the viewport.
Offsets == {<<0, 0>>, <<1, -1>>}

\* The light positions assigned, in half units: (1, 2, 3).
LightPositions == {<<2, 4, 6>>}

\* The values an option is assigned.
optValues(name, zooms) ==
    CASE name \in {"occlusion", "showCursor", "showLegend"} -> BOOLEAN
      [] name = "zoom" -> zooms
      [] name = "rotation" -> Rotations
      [] name = "offset" -> Offsets
      [] name = "lightPos" -> LightPositions
      [] OTHER -> {"value"}

\* An assignment to one of the options in names that changes its value; the
\* listeners of the option run.
SetOpt(names, zooms) ==
    \E name \in names :
      \E v \in optValues(name, zooms) :
        LET w == assignOpt(World, name, v)
        IN  /\ name \in {"occlusion", "showCursor", "showLegend", "zoom",
                         "rotation", "offset", "lightPos"}
                 => w # World
            /\ Commit([optChanged(w, name) EXCEPT !.assigned = v],
                      "setOpt", name, <<>>, <<>>)

\* canvas.resetLightPos = reset
SetResetLightPos ==
    /\ Commit([World EXCEPT !.resetLightPos = ~@], "setResetLightPos", "-",
              <<>>, <<>>)

\* The canvas is resized.
Resize(sizes) ==
    \E s \in sizes \ {size} :
        /\ Commit([World EXCEPT !.size = s], "resize", "-", <<>>, <<>>)

\* DisplayContext.bounds changes.  The canvas's __displayBoundsChanged
\* runs if it is still subscribed.
SetBounds(boxes) ==
    \E b \in boxes \ {bounds} :
        LET w == [World EXCEPT !.bounds = b]
        IN  /\ IF <<"displayCtx", "bounds">> \in listeners
               THEN Commit(displayBoundsChanged(w), "displayBoundsChanged",
                           "-", <<>>, <<>>)
               ELSE Commit(w, "setBounds", "-", <<>>, <<>>)

\* A call of defaultLightPos().
DefaultLightPos ==
    /\ Commit(defaultLightPos(World), "defaultLightPos", "-", <<>>, <<>>)

\* A call of _initGL(): the canvas is ready to be drawn on.
InitGL ==
    \E keys \in Keys(glObjects) :
        /\ Commit(initGL(World, keys), "initGL", "-", <<>>, <<>>)

\* A call of __setViewport().
SetViewport ==
    /\ Commit(setViewport(World).c, "setViewport", "-", <<>>, <<>>)

\* A call of canvasToWorld(xpos, ypos), with a pixel of the given set.
CanvasToWorld(pixels) ==
    \E px \in pixels :
        /\ Commit([canvasToWorld(World, px[1], px[2])
                     EXCEPT !.assigned = px],
                  "canvasToWorld", "-", <<>>, <<>>)

\* A call of _draw().  ready() and Display.enabled are asked of the
\* overlays getGLObjects returns, which are those that hold an adapter.
Draw ==
    LET held == {o \in Overlays : Has(glObjects, o) /\ isReady(Get(glObjects, o))}
    IN  \E ctxOk \in BOOLEAN :
          \E rdy \in SUBSET held, en \in SUBSET held :
            /\ Commit(draw(World, ctxOk, rdy, en), "draw", "-", <<>>, <<>>)

\* ------------------------------------------------------------------------
\* Actions of the overlay loader
\* ------------------------------------------------------------------------

\* A call of loadOverlays(paths, onLoad=...).
LoadOverlays ==
    \E id \in Loads, paths \in PathLists :
        LET r == loadOverlays([loads |-> loads, idle |-> loadIdle], id, paths)
        IN  /\ ~loads[id].started
            /\ \A j \in Loads : j < id => loads[j].started
            /\ loads' = r.loads
            /\ loadIdle' = r.idle
            /\ UNCHANGED <<canvasVars, labels>>

\* The idle loop runs the task at the head of its queue.
RunLoadIdle ==
    /\ loadIdle # <<>>
    /\ LET t == Head(loadIdle)
       IN  loads' = [loads EXCEPT ![t.id] =
                       IF t.fn = "loadPath" THEN loadPath(@, t.path)
                                            ELSE realOnLoad(@)]
    /\ loadIdle' = Tail(loadIdle)
    /\ UNCHANGED <<canvasVars, labels>>

\* ------------------------------------------------------------------------
\* Actions of the labels
\* ------------------------------------------------------------------------

\* A property the labels listen to is given another value.  The selected
\* overlay is an index into the overlay list.
AssignLabelProp ==
    \E prop \in LabelProps :
      \E v \in Range(labelValues(prop)) \ {labels.props[prop]} :
        /\ prop = "selectedOverlay" => v < Len(labels.overlays)
        /\ Cardinality(changedProps([labels.props EXCEPT ![prop] = v]))
              <= MaxChanged
        /\ labels' = assignLabelProp(labels, prop, v)
        /\ UNCHANGED <<canvasVars, loads, loadIdle>>

\* The overlay list is given another value under which the selected
\* overlay, if there is one, keeps its place, so that selectedOverlay does
\* not change.
SetLabelOverlays ==
    \E new \in LabelLists \ {labels.overlays} :
        /\ labels.props.selectedOverlay = 0
             \/ labels.props.selectedOverlay < Len(new)
        /\ labels' = setLabelOverlays(labels, new)
        /\ UNCHANGED <<canvasVars, loads, loadIdle>>

\* DisplayOpts.bounds of an overlay of the list changes.
SetOverlayBounds ==
    \E o \in Range(labels.overlays) :
        /\ labels' = notifyLabels(startCall(labels, "boundsChanged"),
                                  boundsOf(o))
        /\ UNCHANGED <<canvasVars, loads, loadIdle>>

\* A call of OrthoLabels.destroy().  The calls that wait in the queue stay
\* there: a listener of the labels that runs afterwards finds the
\* references gone.
DestroyLabels ==
    /\ labels' = destroyLabels(startCall(labels, "destroy"))
    /\ UNCHANGED <<canvasVars, loads, loadIdle>>

\* The listener at the head of the call queue is called.
RunCallQueue ==
    /\ labels.queue # <<>>
    /\ labels' = callListener([startCall(labels, "queued") EXCEPT
                                   !.queue = Tail(@)],
                              Head(labels.queue))
    /\ UNCHANGED <<canvasVars, loads, loadIdle>>

NextLabels ==
    \/ AssignLabelProp
    \/ SetLabelOverlays
    \/ SetOverlayBounds
    \/ DestroyLabels
    \/ RunCallQueue

\* The labels and the panel as their constructors leave them.
InitLabels == Init /\ overlayList = <<"O1">>

SpecLabels == InitLabels /\ [][NextLabels]_vars

NextLoad ==
    \/ LoadOverlays
    \/ RunLoadIdle

SpecLoad == Init /\ [][NextLoad]_vars

Next ==
    \/ SetOverlayList
    \/ SetOverlayType
    \/ RegisterOverlay
    \/ DeregisterOverlay
    \/ GetGLObjects
    \/ Destroy
    \/ RunIdle
    \/ InitGL

Spec == Init /\ [][Next]_vars

\* ------------------------------------------------------------------------
\* The registry filled and emptied on a canvas that is not destroyed and
\* whose overlays keep their types.
\* ------------------------------------------------------------------------

NextRegistry ==
    \/ SetOverlayList
    \/ InitGL
    \/ RegisterOverlay
    \/ DeregisterOverlay
    \/ GetGLObjects
    \/ RunIdle

SpecRegistry == Init /\ [][NextRegistry]_vars

\* ------------------------------------------------------------------------
\* The canvas drawing frames: the overlay list changes, the idle loop runs
\* the construction tasks, frames are drawn, occlusion is switched and the
\* canvas is resized.
\* ------------------------------------------------------------------------

DrawSizes == {<<0, 1>>, InitSize}

\* The second box is flat in y and z.
OptsBounds == {InitBounds, Box(<<0, 50>>, <<0, 0>>, <<10, 10>>)}

NextDraw ==
    \/ SetOverlayList
    \/ GetGLObjects
    \/ RunIdle
    \/ Draw
    \/ SetOpt({"occlusion"}, {})
    \/ Resize(DrawSizes)

SpecDraw == Init /\ [][NextDraw]_vars

\* ------------------------------------------------------------------------
\* Frames drawn on a canvas of any size over any bounds: the overlay list
\* changes, the idle loop runs the construction tasks, the canvas is
\* resized and the bounds change.
\* ------------------------------------------------------------------------

InitFrame == \E s \in DrawSizes, b \in OptsBounds : InitState(s, b)

NextFrame ==
    \/ SetOverlayList
    \/ RunIdle
    \/ Draw
    \/ Resize(DrawSizes)
    \/ SetBounds(OptsBounds)

SpecFrame == InitFrame /\ [][NextFrame]_vars

\* ------------------------------------------------------------------------
\* The scene drawn frame by frame: overlays come and go, the idle loop
\* builds their adapters, frames are drawn with any answers of ready() and
\* Display.enabled, and showCursor and showLegend are switched.  The
\* canvas starts with a size that is zero in one direction or not.
\* ------------------------------------------------------------------------

InitScene == \E s \in DrawSizes : InitState(s, InitBounds)

NextScene ==
    \/ SetOverlayList
    \/ RunIdle
    \/ Draw
    \/ SetOpt({"showCursor", "showLegend"}, {})

SpecScene == InitScene /\ [][NextScene]_vars

\* ------------------------------------------------------------------------
\* The draw order of a scene with two images, two surfaces and an overlay
\* of another class: the canvas starts with any of them in the list, in
\* any order, each image and surface of the list with its adapter built or
\* not yet registered; getGLObjects is called, the idle loop builds the
\* adapters it scheduled and occlusion is switched.
\* ------------------------------------------------------------------------

OrderOverlays == {"V1", "V2", "S1", "S2", "O1"}

\* The lists without repetition of up to four of the overlays.
OrderLists ==
    {l \in UNION {[1..n -> OrderOverlays] : n \in 0..4} :
        \A i, j \in 1..Len(l) : l[i] = l[j] => i = j}

\* The registry and the adapters once the overlays of built, taken in the
\* order of the list l, have their adapters.
RECURSIVE builtRegistry(_, _, _)
builtRegistry(l, built, n) ==
    IF l = <<>> THEN <<>>
    ELSE IF Head(l) \in built
    THEN <<[ovl |-> Head(l), obj |-> n]>>
             \o builtRegistry(Tail(l), built, n + 1)
    ELSE builtRegistry(Tail(l), built, n)

InitOrder ==
    \E l \in OrderLists :
      \E built \in SUBSET {o \in Range(l) : isRenderableClass(o)} :
        LET g == builtRegistry(l, built, 1)
        IN  /\ overlayList = l
            /\ overlayType = [o \in OrderOverlays |-> defaultOverlayType(o)]
            /\ occlusion = TRUE
            /\ hasRefs = TRUE
            /\ glObjects = g
            /\ idleQueue = <<>>
            /\ listeners = {<<"overlayList", "overlays">>,
                            <<"displayCtx", "bounds">>}
                           \cup {<<o, p>> : o \in built,
                                           p \in {"enabled", "overlayType"}}
            /\ adapters = [id \in 1..4 |->
                             IF id <= Len(g) THEN g[id].ovl ELSE "free"]
            /\ raised = "none"
            /\ lastCall = NoCall
            /\ retOverlays = <<>>
            /\ retGlobjs = <<>>
            /\ oldTasks = 0
            /\ opts = defaultOpts
            /\ resetLightPos = TRUE
            /\ size = InitSize
            /\ bounds = InitBounds
            /\ viewMat = eye
            /\ projMat = eye
            /\ viewParts = <<>>
            /\ refreshed = FALSE
            /\ glLog = <<>>
            /\ retViewport = "-"
            /\ assigned = "-"
            /\ retWorld = <<>>
            /\ loads = [id \in Loads |-> notCalled]
            /\ loadIdle = <<>>
            /\ labels = initLabels

NextOrder ==
    \/ GetGLObjects
    \/ RunIdle
    \/ SetOpt({"occlusion"}, {})

SpecOrder == InitOrder /\ [][NextOrder]_vars

\* ------------------------------------------------------------------------
\* The canvas used up to and after its destruction.
\* ------------------------------------------------------------------------

NextDestroy ==
    \/ SetOverlayList
    \/ GetGLObjects
    \/ RunIdle
    \/ Draw
    \/ SetBounds(OptsBounds)
    \/ CanvasToWorld({<<FInt(0), FInt(0)>>})
    \/ Destroy

SpecDestroy == Init /\ [][NextDestroy]_vars

\* ------------------------------------------------------------------------
\* The options, the bounds and the overlay list change.
\* ------------------------------------------------------------------------

\* The values assigned to zoom here.
OptsZooms == {1, 75}

NextOpts ==
    \/ SetOpt(optNames, OptsZooms)
    \/ SetBounds(OptsBounds)
    \/ SetOverlayList
    \/ Destroy

SpecOpts == Init /\ [][NextOpts]_vars

\* ------------------------------------------------------------------------
\* The bounds change while the owner switches resetLightPos, on a canvas
\* that is destroyed at some point.
\* ------------------------------------------------------------------------

LightBounds ==
    OptsBounds \cup {Box(<<-90, 90>>, <<-126, 90>>, <<-72, 108>>)}

NextLight ==
    \/ SetBounds(LightBounds)
    \/ SetResetLightPos
    \/ DefaultLightPos
    \/ SetOpt({"lightPos"}, {})
    \/ SetOverlayList
    \/ Destroy

SpecLight == Init /\ [][NextLight]_vars

\* ------------------------------------------------------------------------
\* Assignments to the options, zoom among them.
\* ------------------------------------------------------------------------

\* The values assigned to zoom: below, at and above each constraint.
ZoomInputs == {-5, 0, 1, 2, 10, 75, 4999, 5000, 5001, 6000}

NextZoom == SetOpt(optNames, ZoomInputs)

SpecZoom == Init /\ [][NextZoom]_vars

\* ------------------------------------------------------------------------
\* __setViewport as a function of the canvas size and the scene bounds.
\* ------------------------------------------------------------------------

ViewSizes == {<<0, 0>>, <<0, 1>>, <<1, 0>>, <<1, 1>>, <<2, 1>>}

\* An axis: flat, one unit long near the origin, flat within the relative
\* tolerance (one unit at 100000, two units at 200000), just outside it,
\* not flat.
ViewAxes ==
    {<<0, 0>>, <<0, 1>>, <<100000, 100001>>, <<200000, 200002>>,
     <<100000, 100002>>, <<-50, 50>>}

ViewBounds == {Box(x, y, z) : x \in ViewAxes, y \in ViewAxes, z \in ViewAxes}

InitViewport == \E s \in ViewSizes, b \in ViewBounds : InitState(s, b)

NextViewport == SetViewport

SpecViewport == InitViewport /\ [][NextViewport]_vars

\* ------------------------------------------------------------------------
\* Coordinate mapping: the viewport is configured, zoom, rotation, offset
\* and bounds change, and canvasToWorld is called on the pixels on which
\* known world points are drawn.
\* ------------------------------------------------------------------------

\* The pixel on which the view matrix vm, under the viewport of bounds b
\* and size sz, puts the world point p: the canvas x axis corresponds to
\* (-xhalf, xhalf) and the canvas y axis to (-yhalf, yhalf).
pixelOf(vm, b, sz, p) ==
    LET a == adjust(FInt(blen(b, 1)), FInt(blen(b, 2)), sz[1], sz[2])
        v == applyView(vm, p)
    IN  <<FDiv(FMul(FAdd(v[1], FMul(Frac(1, 2), a[1])), FInt(sz[1])), a[1]),
          FDiv(FMul(FAdd(v[2], FMul(Frac(1, 2), a[2])), FInt(sz[2])), a[2])>>

MapSizes == {<<2, 1>>, <<0, 1>>}

\* The bounds of Init, a box that is flat in z, and a box flat in y and z.
MapBounds == OptsBounds \cup {Box(<<-90, 90>>, <<-126, 90>>, <<0, 0>>)}

MapZooms == {25, 75, 100}

\* World points: centres of the boxes, points at view depth -1 under one
\* or another zoom and rotation, and points at other depths.
MapPoints ==
    {<<FInt(50), FInt(50), FInt(50)>>,
     <<FInt(10), FInt(47), FInt(80)>>,
     <<FInt(10), Frac(149, 3), FInt(80)>>,
     <<FInt(47), FInt(20), FInt(80)>>,
     <<FInt(30), FInt(-18), FInt(0)>>,
     <<FInt(30), FInt(60), FInt(-5)>>}

\* The pixels of the world points, where the viewport maps pixels one to
\* one: the size is not zero and neither is an adjusted extent.
MapPixels ==
    IF /\ size[1] # 0 /\ size[2] # 0
       /\ blen(bounds, 1) # 0 \/ blen(bounds, 2) # 0
    THEN {pixelOf(viewMat, bounds, size, p) : p \in MapPoints}
    ELSE {<<FInt(0), FInt(0)>>}

NextMap ==
    \/ SetViewport
    \/ CanvasToWorld(MapPixels)
    \/ SetOpt({"zoom", "rotation", "offset"}, MapZooms)
    \/ SetBounds(MapBounds)
    \/ Resize(MapSizes)

SpecMap == Init /\ [][NextMap]_vars

\* ------------------------------------------------------------------------
\* Vocabulary of the properties
\* ------------------------------------------------------------------------

\* The call that a step makes.
Calls(op) == lastCall'.op = op
CallsOn(op, o) == lastCall'.op = op /\ lastCall'.ovl = o

\* The construction tasks queued for an overlay.
TasksFor(q, o) == Cardinality({i \in 1..Len(q) : q[i].ovl = o})

\* The canvas's listeners on the Display record of an overlay.
ListenersOn(L, o) == {l \in L : l[1] = o}

\* Whether a step is in the log of a call.
Logged(log, step) == \E i \in 1..Len(log) : log[i].step = step

isPending(g, o) == Has(g, o) /\ Get(g, o) = Pending
isReadyEntry(g, o) == Has(g, o) /\ Get(g, o) # Pending

\* ------------------------------------------------------------------------
\* C1  Registry idempotence.  When an overlay already has an entry (pending
\* or ready), a call of __registerOverlay on it changes neither the
\* registry, nor the idle queue, nor the listeners, and attempts no second
\* addListener; and a run of __overlayListChanged or of getGLObjects over a
\* list that holds the overlay leaves its entry, its queued tasks and its
\* listeners as they were (the handler run by a change of the list or by
\* _initGL).
\* ------------------------------------------------------------------------
C1_RegistryIdempotence ==
    [][\A o \in Overlays :
         Has(glObjects, o) =>
           /\ CallsOn("registerOverlay", o) =>
                /\ glObjects' = glObjects
                /\ idleQueue' = idleQueue
                /\ listeners' = listeners
                /\ adapters' = adapters
                /\ raised' # "RuntimeError"
           /\ (Calls("getGLObjects")
                 \/ ((Calls("overlayListChanged") \/ Calls("initGL"))
                       /\ o \in Range(overlayList'))) =>
                /\ Has(glObjects', o)
                /\ Get(glObjects', o) = Get(glObjects, o)
                /\ TasksFor(idleQueue', o) = TasksFor(idleQueue, o)
                /\ ListenersOn(listeners', o) = ListenersOn(listeners, o)
      ]_vars

\* __registerOverlay has been called on an overlay whose entry is ready
\* while another construction task is still queued.
C1_Witness ==
    /\ lastCall.op = "registerOverlay"
    /\ isReadyEntry(glObjects, lastCall.ovl)
    /\ raised = "none"
    /\ idleQueue # <<>>

\* ------------------------------------------------------------------------
\* C2  Teardown, registry part.  From every state of a live canvas, with
\* entries absent, pending or ready and with construction tasks queued or
\* not, a call of destroy() returns, and when it has returned the registry
\* holds no entry and every adapter that was ready has been destroyed.
\* ------------------------------------------------------------------------
C2_TeardownRegistry ==
    [][(Calls("destroy") /\ hasRefs) =>
         /\ raised' = "none"
         /\ glObjects' = <<>>
         /\ \A i \in 1..Len(glObjects) :
              glObjects[i].obj # Pending =>
                adapters'[glObjects[i].obj] = "free"
      ]_vars

\* ------------------------------------------------------------------------
\* C3  Teardown, listener part.  After destroy() has returned, no listener
\* in the canvas's name is left on the overlay list, on the bounds or on
\* the Display record of an overlay.
\* ------------------------------------------------------------------------
C3_TeardownListeners ==
    (lastCall.op = "destroy" /\ raised = "none") => listeners = {}

\* ------------------------------------------------------------------------
\* C4  Cancellation.  A construction task that was queued before a call of
\* destroy() and runs after it changes neither the registry, nor the
\* adapters, nor the listeners.
\* ------------------------------------------------------------------------
C4_Cancellation ==
    [][(Calls("create") /\ oldTasks > 0) =>
         UNCHANGED <<glObjects, adapters, listeners>>
      ]_vars

\* ------------------------------------------------------------------------
\* C5  Tearing down a pending entry.  __deregisterOverlay, the overlay-type
\* handler and the overlay-list handler, run on an overlay whose entry is
\* pending, remove the entry and raise nothing.
\* ------------------------------------------------------------------------
C5_DeregisterPending ==
    [][\A o \in Overlays :
         (/\ isPending(glObjects, o)
          /\ \/ CallsOn("deregisterOverlay", o)
             \/ CallsOn("overlayTypeChanged", o)
             \/ /\ Calls("overlayListChanged") \/ Calls("initGL")
                /\ o \notin Range(overlayList'))
         => (~Has(glObjects', o) /\ raised' = "none")
      ]_vars

\* ------------------------------------------------------------------------
\* C6  Teardown is repeatable.  destroy() on a destroyed canvas, and
\* __deregisterOverlay on an overlay without entry, raise nothing and
\* change nothing.
\* ------------------------------------------------------------------------
C6_TeardownRepeatable ==
    [][((Calls("destroy") /\ ~hasRefs)
          \/ \E o \in Overlays : CallsOn("deregisterOverlay", o)
                                   /\ ~Has(glObjects, o))
         => /\ raised' = "none"
            /\ UNCHANGED <<hasRefs, glObjects, idleQueue, listeners,
                           adapters>>
      ]_vars

\* ------------------------------------------------------------------------
\* C7  Exactly-once construction.  A construction task builds an adapter
\* only for the registration that queued it (never when the entry it was
\* queued for has been torn down since), and only into a pending entry.
\* ------------------------------------------------------------------------
C7_ExactlyOnceConstruction ==
    [][(Calls("create") /\ adapters' # adapters) =>
         /\ ~Head(idleQueue).stale
         /\ isPending(glObjects, Head(idleQueue).ovl)
      ]_vars

\* ------------------------------------------------------------------------
\* C8  Type filter.  No entry exists for an overlay whose class is neither
\* image nor mesh or whose current Display.overlayType is outside
\* {volume, mesh, giftimesh}; __registerOverlay on such an overlay creates
\* no entry, queues no task and adds no listener.
\* ------------------------------------------------------------------------
C8_TypeFilterInvariant ==
    \A i \in 1..Len(glObjects) :
        /\ isRenderableClass(glObjects[i].ovl)
        /\ isRenderableType(overlayType[glObjects[i].ovl])

C8_TypeFilterRegister ==
    [][\A o \in Overlays :
         (/\ CallsOn("registerOverlay", o)
          /\ ~(isRenderableClass(o) /\ isRenderableType(overlayType[o])))
         => UNCHANGED <<glObjects, idleQueue, listeners>>
      ]_vars

\* ------------------------------------------------------------------------
\* C9  Ready-set exclusion.  The two lists getGLObjects returns have the
\* same length, the adapter at each place is the registry value of the
\* overlay at that place, and no overlay of the result is without entry or
\* pending.
\* ------------------------------------------------------------------------
C9_ReadySetExclusion ==
    (lastCall.op = "getGLObjects" /\ raised = "none") =>
        /\ Len(retOverlays) = Len(retGlobjs)
        /\ \A i \in 1..Len(retOverlays) :
             /\ i <= Len(retGlobjs)
             /\ Has(glObjects, retOverlays[i])
             /\ Get(glObjects, retOverlays[i]) = retGlobjs[i]
             /\ retGlobjs[i] # Pending

\* getGLObjects has returned a ready overlay while another overlay of the
\* list was pending.
C9_Witness ==
    /\ lastCall.op = "getGLObjects"
    /\ raised = "none"
    /\ retOverlays # <<>>
    /\ \E o \in Range(overlayList) : isPending(glObjects, o)

\* ------------------------------------------------------------------------
\* C10  Ready-set inclusion.  An overlay of the list whose entry is ready
\* is in the result of the next getGLObjects call.
\* ------------------------------------------------------------------------
C10_ReadySetInclusion ==
    [][Calls("getGLObjects") =>
         \A o \in Range(overlayList) :
             isReadyEntry(glObjects, o) => o \in Range(retOverlays')
      ]_vars

\* ------------------------------------------------------------------------
\* C11  Occlusion ordering, as the claim states it.  With the overlays
\* inserted in the order V1, S1, O1 and the adapters of V1 and S1 built,
\* getGLObjects returns the overlays in the order S1, V1, O1 when occlusion
\* is on and V1, S1, O1 when it is off.
\* ------------------------------------------------------------------------
C11_OcclusionOrdering ==
    (/\ lastCall.op = "getGLObjects" /\ raised = "none"
     /\ overlayList = InsertionOrder
     /\ isReadyEntry(glObjects, "V1") /\ isReadyEntry(glObjects, "S1"))
    => retOverlays = IF occlusion THEN <<"S1", "V1", "O1">>
                                  ELSE <<"V1", "S1", "O1">>

\* C11 as amended.  getGLObjects walks the overlays in the order S1, V1, O1
\* when occlusion is on and V1, S1, O1 when it is off, and the draw order it
\* returns is S1, V1 when occlusion is on and V1, S1 when it is off: O1,
\* being neither image nor mesh, is never registered and never returned.
C11_OcclusionOrderingRenderable ==
    (/\ lastCall.op = "getGLObjects" /\ raised = "none"
     /\ overlayList = InsertionOrder
     /\ isReadyEntry(glObjects, "V1") /\ isReadyEntry(glObjects, "S1"))
    => /\ ovlOrder(World) = IF occlusion THEN <<"S1", "V1", "O1">>
                                         ELSE <<"V1", "S1", "O1">>
       /\ retOverlays = IF occlusion THEN <<"S1", "V1">>
                                     ELSE <<"V1", "S1">>

\* getGLObjects has returned V1 before S1, occlusion being off.
C11_Witness ==
    /\ lastCall.op = "getGLObjects" /\ raised = "none"
    /\ overlayList = InsertionOrder
    /\ ~occlusion
    /\ retOverlays = <<"V1", "S1">>

\* ------------------------------------------------------------------------
\* C12  Type-change consistency.  An adapter is built for the type its
\* overlay has at that moment, so a ready adapter matches the current type
\* as long as no change of type leaves it in place.  When the overlayType of
\* an overlay of the list changes: the adapter the overlay held is
\* destroyed and is no longer its entry; and if the canvas follows the
\* overlay (it holds an entry or listens to its type) and the new type is
\* renderable, the overlay is left pending with exactly one construction
\* task queued.
\* ------------------------------------------------------------------------
C12_TypeChangeConsistency ==
    [][\A o \in Range(overlayList) \cap Range(overlayList') :
         overlayType'[o] # overlayType[o] =>
           /\ isReadyEntry(glObjects, o) =>
                /\ adapters'[Get(glObjects, o)] = "free"
                /\ ~isReadyEntry(glObjects', o)
           /\ (/\ Has(glObjects, o) \/ <<o, "overlayType">> \in listeners
               /\ isRenderableType(overlayType'[o])) =>
                /\ isPending(glObjects', o)
                /\ TasksFor(idleQueue', o) = 1
      ]_vars

\* ------------------------------------------------------------------------
\* C13  Context failure during construction.  A construction task that
\* finds the rendering context unavailable removes the pending entry, calls
\* no factory and raises nothing; and the call of getGLObjects, or the
\* change of the overlay list, that comes next registers the overlay, if it
\* is still in the list, as pending with a new task, and completes.
\* ------------------------------------------------------------------------
C13_ContextFailure ==
    [][/\ (Calls("create") /\ Logged(glLog', "nocontext")) =>
            /\ ~Has(glObjects', Head(idleQueue).ovl)
            /\ ~Logged(glLog', "createGLObject")
            /\ adapters' = adapters
            /\ raised' = "none"
       /\ (/\ lastCall.op = "create" /\ Logged(glLog, "nocontext")
           /\ Calls("getGLObjects") \/ Calls("overlayListChanged")
           /\ lastCall.ovl \in Range(overlayList')) =>
            /\ isPending(glObjects', lastCall.ovl)
            /\ TasksFor(idleQueue', lastCall.ovl)
                 = TasksFor(idleQueue, lastCall.ovl) + 1
            /\ raised' = "none"
      ]_vars

\* ------------------------------------------------------------------------
\* C14  Stale Display record during teardown.  When the overlay-list
\* handler deregisters the overlays that left the list, whose Display
\* records the display context has dropped, no InvalidOverlayError leaves
\* the handler, and each of these overlays that the handler reaches (those
\* up to the first whose entry is pending, in the order in which the
\* dictionary gave its keys) has its entry removed and, if the entry was
\* ready, its adapter destroyed.
\* ------------------------------------------------------------------------
C14_StaleDisplay ==
    [][Calls("overlayListChanged") =>
         /\ raised' # "InvalidOverlayError"
         /\ \E keys \in Keys(glObjects) :
              LET gone == SelectSeq(keys,
                                    LAMBDA o : o \notin Range(overlayList'))
              IN  \A i \in 1..Len(gone) :
                    (\A j \in 1..(i - 1) : ~isPending(glObjects, gone[j])) =>
                      /\ ~Has(glObjects', gone[i])
                      /\ isReadyEntry(glObjects, gone[i]) =>
                           adapters'[Get(glObjects, gone[i])] = "free"
      ]_vars

\* The overlay-list handler has destroyed the adapter of an overlay that
\* left the list, and raised nothing.
C14_Witness ==
    /\ lastCall.op = "overlayListChanged"
    /\ raised = "none"
    /\ \E i \in 1..Len(glLog) :
         /\ glLog[i].step = "destroy"
         /\ glLog[i].ovl \notin Range(overlayList)
         /\ ~Has(glObjects, glLog[i].ovl)

\* ------------------------------------------------------------------------
\* C15  Destroyed state.  Once destroy() has run, a frame, a call of
\* getGLObjects or of canvasToWorld, a change of the overlay list, of the
\* bounds or of an overlay type, and a queued construction task raise
\* nothing and leave the state of the canvas (its references, registry,
\* adapters, options and view matrix) as it is, adding no listener.
\* ------------------------------------------------------------------------
C15_DestroyedNoOps ==
    [][(~hasRefs /\ ~Calls("destroy")) =>
         /\ raised' = "none"
         /\ listeners' \subseteq listeners
         /\ UNCHANGED <<hasRefs, glObjects, adapters, opts, viewMat>>
      ]_vars

\* ------------------------------------------------------------------------
\* C16  Redraw on change.  On a live canvas, a change of the value of any
\* option (lightPos, light and legendColour among them), a change of the
\* overlay list and a change of the scene bounds each request a redraw.
\* ------------------------------------------------------------------------
C16_RedrawOnChange ==
    [][(/\ hasRefs
        /\ \/ Calls("setOpt")
           \/ overlayList' # overlayList
           \/ bounds' # bounds)
       => refreshed'
      ]_vars


\* ------------------------------------------------------------------------
\* C17  Context check before GL work.  In the log of a call of _draw or of
\* a run of a create() closure, every draw step (clear, viewport set-up,
\* depth clear, preDraw, draw3D, postDraw, cursor, legend) and every call
\* of the adapter factory comes after a call of _setGLContext that returned
\* True in that same call; and when _setGLContext returned False the call
\* has no draw step and no factory call at all.
\* ------------------------------------------------------------------------
GLSteps ==
    {"clear", "glViewport", "glClear", "preDraw", "draw3D", "postDraw",
     "drawCursor", "drawLegend", "createGLObject"}

C17_ContextBeforeGL ==
    /\ \A i \in 1..Len(glLog) :
         glLog[i].step \in GLSteps
           => \E j \in 1..(i - 1) : glLog[j].step = "context"
    /\ Logged(glLog, "nocontext")
         => \A i \in 1..Len(glLog) : glLog[i].step \notin GLSteps

\* A frame in which an adapter was drawn.
C17_Witness ==
    /\ lastCall.op = "draw"
    /\ Logged(glLog, "context")
    /\ Logged(glLog, "draw3D")
    /\ Logged(glLog, "drawLegend")


\* ------------------------------------------------------------------------
\* C18  Viewport degeneracy.  A call of __setViewport returns False when
\* the width or the height of the canvas is zero, or when two or more of
\* the three axes of the bounds have lo equal to hi within the tolerance of
\* np.isclose; it returns True, having set the GL viewport up, when the
\* size is non-zero and at most one axis is flat.
\* ------------------------------------------------------------------------
C18_ViewportDegeneracy ==
    lastCall.op = "setViewport" =>
        LET zeroSize == size[1] = 0 \/ size[2] = 0
            flat     == {i \in 1..3 : isclose(bounds[1][i], bounds[2][i])}
        IN  /\ raised = "none"
            /\ (zeroSize \/ Cardinality(flat) >= 2)
                 => retViewport = "False" /\ ~Logged(glLog, "glViewport")
            /\ (~zeroSize /\ Cardinality(flat) <= 1)
                 => retViewport = "True" /\ Logged(glLog, "glViewport")

\* The viewport is set up over bounds with exactly one flat axis, flat
\* within the tolerance and not exactly.
C18_Witness ==
    /\ lastCall.op = "setViewport"
    /\ retViewport = "True"
    /\ bounds[1][3] # bounds[2][3]
    /\ {i \in 1..3 : isclose(bounds[1][i], bounds[2][i])} = {3}


\* ------------------------------------------------------------------------
\* C19  Degenerate-viewport frame.  A call of _draw in which __setViewport
\* returned False ends there: no preDraw, draw3D or postDraw of an adapter
\* is called, neither the cursor nor the legend is drawn, no overlay is
\* registered (the registry, the idle queue and the listeners are as they
\* were) and nothing is raised.
\* ------------------------------------------------------------------------
C19_DegenerateViewportFrame ==
    [][(Calls("draw") /\ retViewport' = "False")
       => /\ \A s \in {"glViewport", "glClear", "preDraw", "draw3D",
                       "postDraw", "drawCursor", "drawLegend"} :
               ~Logged(glLog', s)
          /\ glObjects' = glObjects
          /\ idleQueue' = idleQueue
          /\ listeners' = listeners
          /\ raised' = "none"
      ]_vars

\* A frame aborted at the viewport, on a canvas that holds a ready adapter
\* to draw and whose list has an overlay without an entry to register.
C19_Witness ==
    /\ lastCall.op = "draw"
    /\ retViewport = "False"
    /\ raised = "none"
    /\ Logged(glLog, "clear")
    /\ opts.showCursor
    /\ \E o \in Range(overlayList) : isReadyEntry(glObjects, o)
    /\ \E o \in Range(overlayList) \cap Renderable : ~Has(glObjects, o)


\* ------------------------------------------------------------------------
\* C20  Zoom clamp.  After every sequence of assignments to opts.zoom the
\* stored zoom lies in [1, 5000]; an assignment of a value below 1 stores
\* 1, and an assignment of a value above 5000 stores 5000.
\* ------------------------------------------------------------------------
C20_ZoomClamp ==
    /\ opts.zoom \in 1..5000
    /\ (lastCall.op = "setOpt" /\ lastCall.ovl = "zoom")
         => /\ assigned < 1 => opts.zoom = 1
            /\ assigned > 5000 => opts.zoom = 5000

\* An assignment of a value below the minimum, stored as the minimum.
C20_Witness ==
    /\ lastCall.op = "setOpt"
    /\ lastCall.ovl = "zoom"
    /\ assigned = -5
    /\ opts.zoom = 1


\* ------------------------------------------------------------------------
\* C21  Light position reset.  On every change of the scene bounds, on a
\* canvas whose destroy() has not been called, lightPos is set to the
\* centre of the new bounds plus (xlen, ylen, 0) when resetLightPos is True
\* and is left as it was when resetLightPos is False; a redraw is requested
\* in both cases.  (lightPos is in half units: twice the centre of an axis
\* is lo + hi.)
\* ------------------------------------------------------------------------
C21_LightPosReset ==
    [][(bounds' # bounds /\ ~destroyCalled)
       => LET lo == bounds'[1]
              hi == bounds'[2]
          IN  /\ refreshed'
              /\ raised' = "none"
              /\ resetLightPos
                   => opts'.lightPos = <<lo[1] + hi[1] + 2 * (hi[1] - lo[1]),
                                         lo[2] + hi[2] + 2 * (hi[2] - lo[2]),
                                         lo[3] + hi[3]>>
              /\ ~resetLightPos => opts'.lightPos = opts.lightPos
      ]_vars

\* The bounds changed with resetLightPos off, and the light stayed where an
\* earlier change of the bounds had put it.
C21_Witness ==
    /\ lastCall.op = "displayBoundsChanged"
    /\ ~resetLightPos
    /\ refreshed
    /\ opts.lightPos # <<0, 0, 0>>
    /\ opts.lightPos[1] # bounds[1][1] + bounds[2][1]
                            + 2 * (bounds[2][1] - bounds[1][1])


\* ------------------------------------------------------------------------
\* C22  Cached view matrix.  A call of canvasToWorld leaves the cached view
\* matrix as it was and inverts that matrix (the cached matrix puts the
\* point returned at view depth -1), whatever zoom, rotation, offset and
\* bounds have become since; and the cached matrix changes only in a call
\* in which the viewport was configured with success.
\* ------------------------------------------------------------------------
C22_CachedViewMatrix ==
    [][/\ Calls("canvasToWorld")
            => /\ viewMat' = viewMat
               /\ raised' = "none"
                    => applyView(viewMat, retWorld')[3] = FInt(-1)
       /\ viewMat' # viewMat => retViewport' = "True"
      ]_vars

\* canvasToWorld has returned a point while the cached matrix was one made
\* from another zoom, another rotation and other bounds than the current.
C22_Witness ==
    /\ lastCall.op = "canvasToWorld"
    /\ raised = "none"
    /\ ~viewMat.eye
    /\ viewMat.zoom # opts.zoom
    /\ viewMat.rotation # opts.rotation
    /\ viewMat.bounds # bounds


\* ------------------------------------------------------------------------
\* C23  Round-trip coordinate mapping.  With a viewport that maps pixels
\* one to one and the cached view matrix, canvasToWorld applied to the
\* pixel on which a known world point is drawn gives that world point
\* back.  (Values are exact fractions, so the tolerance is zero.)
\* ------------------------------------------------------------------------
C23_RoundTrip ==
    (lastCall.op = "canvasToWorld" /\ raised = "none")
        => \A p \in MapPoints :
               (/\ blen(bounds, 1) # 0 \/ blen(bounds, 2) # 0
                /\ pixelOf(viewMat, bounds, size, p) = assigned)
                   => retWorld = p

\* C23 as it holds.  canvasToWorld applied to the pixel on which a world
\* point is drawn gives the point of view depth -1 that is drawn on the
\* same pixel: the view matrix puts the two at the same x and y; and it
\* gives the world point itself back when that point is at view depth -1.
C23_RoundTripAtDepth ==
    (lastCall.op = "canvasToWorld" /\ raised = "none")
        => \A p \in MapPoints :
               (/\ blen(bounds, 1) # 0 \/ blen(bounds, 2) # 0
                /\ pixelOf(viewMat, bounds, size, p) = assigned)
                   => LET v == applyView(viewMat, p)
                          r == applyView(viewMat, retWorld)
                      IN  /\ r[1] = v[1]
                          /\ r[2] = v[2]
                          /\ r[3] = FInt(-1)
                          /\ v[3] = FInt(-1) => retWorld = p

\* A world point at view depth -1 under a view matrix with a zoom, a
\* rotation and an offset has been given back from its pixel.
C23_Witness ==
    /\ lastCall.op = "canvasToWorld"
    /\ raised = "none"
    /\ ~viewMat.eye
    /\ viewMat.zoom # 100
    /\ viewMat.rotation = 1
    /\ viewMat.offset # <<0, 0>>
    /\ retWorld \in MapPoints
    /\ pixelOf(viewMat, bounds, size, retWorld) = assigned


\* ------------------------------------------------------------------------
\* C24  loadOverlays completion callback.  For every call of loadOverlays:
\* onLoad is called at most once; when it is called, the load step of
\* every path has run, in the order of the paths, the list it is given is
\* the list of the paths that loaded, in path order, and every path of
\* unknown type or whose loading raised has been given to errorFunc; and
\* once no task of the call is left on the idle queue, onLoad has been
\* called.
\* ------------------------------------------------------------------------
C24_OnLoadCallback ==
    \A id \in Loads :
        LET l      == loads[id]
            ok(p)  == p \in {"a.nii", "m.vtk"}
            bad(p) == ~ok(p)
        IN  l.started =>
              /\ Len(l.onLoad) <= 1
              /\ Len(l.onLoad) = 1
                   => /\ l.loadFunc = l.paths
                      /\ l.onLoad[1] = SelectSeq(l.paths, ok)
                      /\ l.errors = SelectSeq(l.paths, bad)
              /\ (\A i \in 1..Len(loadIdle) : loadIdle[i].id # id)
                   => Len(l.onLoad) = 1

\* onLoad has been called with the one overlay that loaded, after a path
\* whose loading raised, while another call still has tasks queued.
C24_Witness ==
    \E id \in Loads :
        /\ loads[id].paths = <<"bad.nii", "m.vtk">>
        /\ loads[id].onLoad = <<<<"m.vtk">>>>
        /\ loads[id].errors = <<"bad.nii">>
        /\ loadIdle # <<>>

\* ------------------------------------------------------------------------
\* C25  loadOverlays returns a list (a regular list) of the overlay
\* objects it loaded.
\* ------------------------------------------------------------------------
C25_ReturnsList ==
    \A id \in Loads : loads[id].started => loads[id].ret = "list"


\* ------------------------------------------------------------------------
\* C26  Registry sync.  When a run of __overlayListChanged returns, every
\* key of the registry is in the overlay list, no adapter built for an
\* overlay that is no longer in the list is left alive, and every overlay
\* of the list of a renderable class and type has an entry, pending or
\* ready.
\* ------------------------------------------------------------------------
C26_RegistrySync ==
    [][((Calls("overlayListChanged") \/ Calls("initGL"))
          /\ raised' = "none")
       => /\ \A i \in 1..Len(glObjects') :
               glObjects'[i].ovl \in Range(overlayList')
          /\ \A id \in DOMAIN adapters' :
               adapters'[id] # "free" => adapters'[id] \in Range(overlayList')
          /\ \A o \in Range(overlayList') :
               (isRenderableClass(o) /\ isRenderableType(overlayType'[o]))
                 => Has(glObjects', o)
      ]_vars


\* ------------------------------------------------------------------------
\* C27  Lazy registration.  A call of getGLObjects on a live canvas makes
\* pending, with one more task queued, every overlay of the list of a
\* renderable class and type that had no entry, leaves it out of the lists
\* it returns, and leaves the entry of every other overlay as it was.
\* ------------------------------------------------------------------------
C27_LazyRegistration ==
    [][(Calls("getGLObjects") /\ hasRefs)
       => \A o \in Range(overlayList) :
            IF Has(glObjects, o)
            THEN Has(glObjects', o)
                 /\ Get(glObjects', o) = Get(glObjects, o)
            ELSE (isRenderableClass(o) /\ isRenderableType(overlayType[o]))
                   => /\ isPending(glObjects', o)
                      /\ TasksFor(idleQueue', o) = TasksFor(idleQueue, o) + 1
                      /\ o \notin Range(retOverlays')
      ]_vars


\* ------------------------------------------------------------------------
\* C28  No permanently pending entry.  When the create() closure of an
\* overlay that has an entry has run on a live canvas, the entry is not
\* pending any more: it is ready, or it is absent; and it is absent when
\* the rendering context was not available.
\* ------------------------------------------------------------------------
C28_NoPermanentlyPending ==
    [][(Calls("create") /\ hasRefs /\ Has(glObjects, lastCall'.ovl))
       => /\ ~isPending(glObjects', lastCall'.ovl)
          /\ Logged(glLog', "nocontext") => ~Has(glObjects', lastCall'.ovl)
      ]_vars


\* ------------------------------------------------------------------------
\* C29  No adapter leak.  In every reachable state, every adapter the
\* factory has returned and that has not been destroyed is the value the
\* registry holds for the overlay it was built for.
\* ------------------------------------------------------------------------
C29_NoAdapterLeak ==
    \A id \in DOMAIN adapters :
        adapters[id] # "free"
          => /\ Has(glObjects, adapters[id])
             /\ Get(glObjects, adapters[id]) = id


\* ------------------------------------------------------------------------
\* C30  Listener/entry correspondence.  In every reachable state the
\* canvas's 'enabled' and 'overlayType' listeners are both on an overlay's
\* Display exactly when the overlay has a registry entry, and neither is
\* there otherwise; and no call has raised the RuntimeError of adding a
\* listener name that is already registered.
\* ------------------------------------------------------------------------
C30_ListenerEntryCorrespondence ==
    /\ \A o \in Overlays :
           ListenersOn(listeners, o) =
               IF hasRefs /\ Has(glObjects, o)
               THEN {<<o, "enabled">>, <<o, "overlayType">>}
               ELSE {}
    /\ raised # "RuntimeError"


\* ------------------------------------------------------------------------
\* Vocabulary of the frame: the positions of the log at which an adapter
\* of overlay o received a draw call, and whether ready() and
\* Display.enabled both answered True for o in the frame.
\* ------------------------------------------------------------------------
DrawSteps == {"preDraw", "draw3D", "postDraw"}

DrawCalls(log, o) ==
    {i \in 1..Len(log) : log[i].ovl = o /\ log[i].step \in DrawSteps}

Answered(log, step, o, ret) ==
    \E i \in 1..Len(log) :
        log[i].step = step /\ log[i].ovl = o /\ log[i].ret = ret

\* ------------------------------------------------------------------------
\* C31  Per-overlay draw step.  After a frame, each overlay whose adapter
\* answered ready() with True and whose Display.enabled was True has
\* received exactly preDraw, draw3D and postDraw, one after the other in
\* that order and with one and the same transform; every other overlay
\* (not returned, not ready or disabled) has received no draw call.
\* ------------------------------------------------------------------------
C31_PerOverlayDrawStep ==
    (lastCall.op = "draw" /\ raised = "none")
    => \A o \in Overlays :
         IF /\ Answered(glLog, "ready", o, TRUE)
            /\ Answered(glLog, "enabled", o, TRUE)
         THEN \E i \in 1..(Len(glLog) - 2) :
                /\ DrawCalls(glLog, o) = {i, i + 1, i + 2}
                /\ glLog[i].step = "preDraw"
                /\ glLog[i + 1].step = "draw3D"
                /\ glLog[i + 2].step = "postDraw"
                /\ glLog[i + 1].xform = glLog[i].xform
                /\ glLog[i + 2].xform = glLog[i].xform
         ELSE DrawCalls(glLog, o) = {}

\* A frame in which the adapter of S1 was drawn and the adapter of V1,
\* ready but with its overlay disabled, was not.
C31_Witness ==
    /\ lastCall.op = "draw" /\ raised = "none"
    /\ DrawCalls(glLog, "S1") # {}
    /\ Answered(glLog, "ready", "V1", TRUE)
    /\ Answered(glLog, "enabled", "V1", FALSE)
    /\ DrawCalls(glLog, "V1") = {}


\* ------------------------------------------------------------------------
\* C32  Incremental depth offset.  After a frame, every draw call was given
\* the view matrix the frame's viewport configuration stored, preceded by
\* depth-offset steps: with occlusion on, as many steps as overlays were
\* drawn up to and including that one (skipped overlays not counted); with
\* occlusion off, none.
\* ------------------------------------------------------------------------
C32_IncrementalDepthOffset ==
    (lastCall.op = "draw" /\ raised = "none")
    => \A o \in Overlays : \A i \in DrawCalls(glLog, o) :
         /\ glLog[i].xform.view = viewMat
         /\ glLog[i].xform.depth =
              IF occlusion
              THEN Cardinality({j \in 1..i : glLog[j].step = "preDraw"})
              ELSE 0

\* With occlusion on, a frame drew S1 with one depth-offset step and then
\* V1 with two.
C32_Witness ==
    /\ lastCall.op = "draw" /\ raised = "none" /\ occlusion
    /\ \E i \in DrawCalls(glLog, "S1") : glLog[i].xform.depth = 1
    /\ \E i \in DrawCalls(glLog, "V1") : glLog[i].xform.depth = 2


\* ------------------------------------------------------------------------
\* C33  Depth-buffer clear.  After a frame, the depth buffer was cleared
\* immediately before the preDraw of an overlay exactly when occlusion is
\* off and the overlay is an image; every clear of the depth buffer is
\* immediately followed by the preDraw of the overlay it was made for; and
\* with occlusion on the depth buffer was not cleared at all.
\* ------------------------------------------------------------------------
C33_DepthBufferClear ==
    (lastCall.op = "draw" /\ raised = "none")
    => /\ \A i \in 1..Len(glLog) :
            glLog[i].step = "preDraw"
              => ((i > 1 /\ glLog[i - 1].step = "glClear"
                         /\ glLog[i - 1].ovl = glLog[i].ovl)
                  <=> (~occlusion /\ overlayClass(glLog[i].ovl) = "Image"))
       /\ \A i \in 1..Len(glLog) :
            glLog[i].step = "glClear"
              => /\ i < Len(glLog)
                 /\ glLog[i + 1].step = "preDraw"
                 /\ glLog[i + 1].ovl = glLog[i].ovl
       /\ occlusion => ~Logged(glLog, "glClear")

\* With occlusion off, a frame drew the image V1 after a clear of the
\* depth buffer and the surface S1 without one.
C33_Witness ==
    /\ lastCall.op = "draw" /\ raised = "none" /\ ~occlusion
    /\ DrawCalls(glLog, "S1") # {}
    /\ \E i \in 1..Len(glLog) : glLog[i].step = "glClear" /\ glLog[i].ovl = "V1"
    /\ \A i \in 1..Len(glLog) : glLog[i].step = "glClear" => glLog[i].ovl # "S1"


\* ------------------------------------------------------------------------
\* C34  Cursor and legend.  After a frame whose rendering context was made
\* current and whose viewport was configured, the cursor was drawn exactly
\* when showCursor is true and the legend exactly when showLegend is true,
\* both after every draw call of an adapter, whatever overlays were
\* returned, ready or enabled.
\* ------------------------------------------------------------------------
C34_CursorAndLegend ==
    (/\ lastCall.op = "draw" /\ raised = "none"
     /\ Logged(glLog, "context") /\ retViewport = "True")
    => /\ Logged(glLog, "drawCursor") <=> opts.showCursor
       /\ Logged(glLog, "drawLegend") <=> opts.showLegend
       /\ \A i, j \in 1..Len(glLog) :
            (/\ glLog[i].step \in {"drawCursor", "drawLegend"}
             /\ glLog[j].step \in DrawSteps) => j < i


\* ------------------------------------------------------------------------
\* C35  Order within a class.  The overlays getGLObjects returns are
\* exactly the overlays of the display context's query whose adapter is
\* built, each once; a surface stands before an image only if occlusion is
\* on and an image before a surface only if it is off; and two returned
\* overlays of one class stand in the order they have in the query (which
\* gives the overlays in the order of the overlay list).
\* ------------------------------------------------------------------------
C35_OrderWithinClass ==
    (lastCall.op = "getGLObjects" /\ raised = "none")
    => LET q   == overlayList
           pos(o) == CHOOSE i \in 1..Len(q) : q[i] = o
           cls(i) == overlayClass(retOverlays[i])
       IN  /\ Range(retOverlays) =
                {o \in Range(q) : isReadyEntry(glObjects, o)}
           /\ \A i, j \in 1..Len(retOverlays) :
                retOverlays[i] = retOverlays[j] => i = j
           /\ \A i, j \in 1..Len(retOverlays) :
                i < j =>
                  /\ (cls(i) = "TriangleMesh" /\ cls(j) = "Image")
                        => occlusion
                  /\ (cls(i) = "Image" /\ cls(j) = "TriangleMesh")
                        => ~occlusion
                  /\ cls(i) = cls(j)
                        => pos(retOverlays[i]) < pos(retOverlays[j])

\* With the query giving V2, S2, V1, S1 and occlusion off, getGLObjects has
\* returned V2, V1, S2, S1.
C35_Witness ==
    /\ lastCall.op = "getGLObjects" /\ raised = "none" /\ ~occlusion
    /\ overlayList = <<"V2", "S2", "V1", "S1">>
    /\ retOverlays = <<"V2", "V1", "S2", "S1">>


\* ------------------------------------------------------------------------
\* C36  Failed viewport configuration changes nothing.  A call in which
\* __setViewport returned False leaves the view matrix, the projection
\* matrix and the view offset, scale, rotation and camera matrices as they
\* were, and the four of them have values then: those of the last
\* configuration that succeeded, or initial ones.
\* ------------------------------------------------------------------------
C36_FailedViewportChangesNothing ==
    [][retViewport' = "False"
         => /\ viewMat' = viewMat
            /\ projMat' = projMat
            /\ viewParts' = viewParts
            /\ viewParts' # <<>>
      ]_vars


\* ------------------------------------------------------------------------
\* C37  View-matrix composition.  After a call that configured the
\* viewport, the stored view matrix takes every point where the stored
\* rotation, then the stored camera, then the stored scale, then the
\* stored offset take it, in that order; and the stored scale and rotation
\* are those of the current zoom and rotation options.
\* ------------------------------------------------------------------------
C37_ViewMatrixComposition ==
    (retViewport = "True" /\ raised = "none")
    => /\ viewParts # <<>>
       /\ LET parts == viewParts[1]
          IN  /\ \A p \in MapPoints :
                    applyView(viewMat, p) =
                        applyOffset(parts.offset,
                            applyScale(parts.scale,
                                applyCamera(parts.camera,
                                    applyRotate(parts.rotate, p))))
              /\ parts.scale = Frac(opts.zoom, 100)
              /\ parts.rotate.turns = opts.rotation

\* The viewport has been configured with a zoom other than 100, a rotation
\* and an offset, so that the four matrices do not commute.
C37_Witness ==
    /\ retViewport = "True" /\ raised = "none"
    /\ viewMat.zoom = 25
    /\ viewMat.rotation = 1
    /\ viewMat.offset = <<1, -1>>
    /\ viewParts # <<>>


\* ------------------------------------------------------------------------
\* C38  Immediate label refresh.  Until destroy() is called, every refresh
\* listener of OrthoLabels on invertX, invertY, showLabels, labelSize,
\* labelColour, selectedOverlay, displaySpace and radioOrientation is
\* registered as immediate; when an assignment to one of these properties
\* returns, the label refresh has run in it, the panel refresh has not, and
\* the annotations are what a refresh gives for the new values; and the
\* panel refresh that the change queued draws the annotations as they are
\* then, which are those of a refresh for the values of that moment unless
\* the overlay list has changed since the last refresh.
\* ------------------------------------------------------------------------
C38_ImmediateLabelRefresh ==
    labels.hasRefs =>
      /\ \A p \in LabelProps :
           \E l \in labels.listeners :
              /\ l.prop = p /\ l.callback = "refreshLabels"
              /\ l.immediate
      /\ labels.op = "assign"
           => /\ "refreshLabels" \in labels.ran
              /\ "panelRefresh" \notin labels.ran
              /\ "panelRefresh" \in Range(labels.queue)
              /\ labels.annots = refreshLabels(labels).annots
      /\ (labels.op = "queued" /\ "panelRefresh" \in labels.ran)
           => /\ labels.painted = <<labels.annots>>
              /\ ~labels.stale
                   => labels.painted = <<refreshLabels(labels).annots>>

\* The panel has drawn labels that were refreshed for a selected image and
\* an inverted x axis, while a change of the overlay list was still waiting
\* in the queue.
C38_Witness ==
    /\ labels.hasRefs
    /\ labels.op = "queued" /\ "panelRefresh" \in labels.ran
    /\ labels.painted # <<>>
    /\ labels.painted[1].enabled
    /\ labels.painted[1].text.ref = "V1"
    /\ labels.painted[1].text.invertX
    /\ "overlayListChanged" \in Range(labels.queue)

====
